---- MODULE Spec2Model ----
(***************************************************************************)
(* Hugo "Priority Wars": the priority-based stock allocator of             *)
(* hugo/agents/priority_arbiter.py (PriorityArbiter.resolve_conflict and   *)
(* its helpers), with the BOM lookup of Backend/data/dataset_loader.py.    *)
(*                                                                         *)
(* A call of resolve_conflict is one action: the sales orders, the BOM     *)
(* table and the available stock are the inputs, the PriorityResolution    *)
(* it returns is the result.                                               *)
(***************************************************************************)
EXTENDS Integers, Sequences, FiniteSets, TLC

VARIABLES
    pc,               \* "ready" before the call, "done" after it returned
    material_id,      \* the part the conflict is resolved for
    available_stock,  \* argument available_stock
    sales_orders,     \* argument sales_orders_df.data: the rows in input order
    bom,              \* DatasetLoader.bom: [exists, data], the rows of bom.csv
    resolution,       \* the PriorityResolution returned, None before the call
    part_demand,      \* what _calculate_part_demand did: [raised, value]
    served,           \* the AllocationResults in the order the allocator made them
    escaped,          \* TRUE when an exception left resolve_conflict
    calls,            \* calls of resolve_conflict made with these arguments
    first_resolution, \* what the first of them returned, None before it
    first_bom,        \* bom.csv as the first of them read it
    csv,              \* the CSV files of the balancer's data_dir: [exists, data] each
    recommendations,  \* argument recommendations: material ids in list order
    rec_index,        \* the recommendation detect_priority_conflicts is at
    conflicts,        \* the list detect_priority_conflicts builds and returns
    errors,           \* materials whose iteration ended in the except clause
    op,               \* the LLM entry point that is running
    llm_pc,           \* where it is
    attempt,          \* _request_with_retry: failed attempts so far
    waits,            \* the seconds slept by time.sleep, in order
    posts,            \* the HTTP requests made, in order: [to, outcome]
    response,         \* the text the model answered with
    repair_attempt,   \* attempt_json_repair: repair requests made so far
    llm_result,       \* what the entry point returned or raised
    llm_error,        \* should_trigger_alert: what sent it to the default path
    change_event,     \* should_trigger_alert: argument change_event
    _client,          \* ollama_llm._client, the module-level client
    purchase_orders,  \* ERPMatcher.purchase_orders of the shared HugoAgent
    thread_op,        \* the operation each thread runs
    thread_pc,        \* position of each thread
    emails,           \* the senders of the emails process_emails fetched
    email_index,      \* per thread: the email process_emails is at
    matched,          \* per thread: the PO matched to each email so far
    saw_none,         \* per thread: what its test "_client is None" gave
    client_used,      \* per thread: the client generate_text called
    clients_built,    \* OllamaLLM objects constructed so far
    update_args,      \* arguments of the update_po_status call
    risk_fn,          \* the scoring function that is called
    risk_pc,          \* "called" or "returned"
    signal,           \* compute_risk_score: argument signal
    delay_days,       \* compute_risk_score: argument delay_days
    quantity_change,  \* compute_risk_score: argument quantity_change
    risk_po,          \* compute_risk_score: argument po, by its priority
    context,          \* compute_risk_score: argument context
    change,           \* calculate_risk_score, get_alert_severity: argument change
    unmapped,         \* calculate_risk_score, get_alert_severity: argument unmapped
    risk_score,       \* the score returned, in hundredths
    severity,         \* the AlertSeverity returned
    hoarding_pc,      \* analyze_material: "called" or "returned"
    summary,          \* what get_material_summary gives for the material
    hoarding_result,  \* the HoardingResult returned
    inbox_fn,         \* the function called: process_emails or should_generate_alert
    inbox_pc,         \* "called" or "returned"
    inbox,            \* process_emails: the emails fetched
    inbox_index,      \* process_emails: the email the loop is at
    metrics,          \* process_emails: the metrics
    alerts,           \* process_emails: the alerts
    gate_change,      \* should_generate_alert: change
    gate_po_reference,\* should_generate_alert: po_reference
    gate_unmapped,    \* should_generate_alert: unmapped
    gate_result,      \* should_generate_alert: what it returned
    recommend_pc,     \* determine_recommendation: "called" or "returned"
    avg_demand,       \* determine_recommendation: avg_demand
    volatility,       \* determine_recommendation: volatility
    recommended,      \* the (recommendation, confidence) returned
    pipeline_pc,      \* run_pipeline: the step it is at
    email_text,       \* run_pipeline: email_text
    erp_csv_exists,   \* run_pipeline: whether erp_csv_path exists
    data_path,        \* run_pipeline: data_path
    pipeline_result,  \* run_pipeline: the result dict
    optimizer_pc,     \* optimize_inventory_settings: "called" or "done"
    part_data,        \* optimize_inventory_settings: part_data
    primary_outcome,  \* what the primary Ollama attempt does
    fallback_outcome, \* what the simplified retry does
    optimized         \* the recommendation returned, or the exception raised

arbiter_vars == <<pc, material_id, available_stock, sales_orders, bom,
                  resolution, part_demand, served, escaped>>

repeat_vars == <<calls, first_resolution, first_bom>>

batch_vars == <<csv, recommendations, rec_index, conflicts, errors>>

llm_vars == <<op, llm_pc, attempt, waits, posts, response, repair_attempt,
              llm_result, llm_error, change_event>>

agent_vars == <<_client, purchase_orders, thread_op, thread_pc, emails,
                email_index, matched, saw_none, client_used, clients_built,
                update_args>>

risk_vars == <<risk_fn, risk_pc, signal, delay_days, quantity_change, risk_po,
               context, change, unmapped, risk_score, severity>>

hoarding_vars == <<hoarding_pc, summary, hoarding_result>>

inbox_vars == <<inbox_fn, inbox_pc, inbox, inbox_index, metrics, alerts, gate_change, gate_po_reference, gate_unmapped, gate_result>>

recommend_vars == <<recommend_pc, avg_demand, volatility, recommended>>

pipeline_vars == <<pipeline_pc, email_text, erp_csv_exists, data_path, pipeline_result>>

optimizer_vars == <<optimizer_pc, part_data, primary_outcome, fallback_outcome, optimized>>

service_vars == <<risk_vars, hoarding_vars, inbox_vars, recommend_vars, pipeline_vars, optimizer_vars>>

vars == <<arbiter_vars, repeat_vars, batch_vars, llm_vars, agent_vars,
          service_vars>>

(***************************************************************************)
(* Bounds of the model.                                                    *)
(***************************************************************************)
MaxOrders == 3    \* rows of sales_orders
MaxStock == 2     \* available_stock ranges over 0..MaxStock (input constraint: >= 0)
MaxQty == 2       \* a row's quantity ranges over MinQty..MaxQty
MinQty == 0 - 1   \* int() accepts a signed quantity

None == "None"

(***************************************************************************)
(* Text of an integer, as it stands in a CSV field, and Python's int().    *)
(***************************************************************************)
Digits == <<"0", "1", "2", "3", "4", "5", "6", "7", "8", "9">>

NegDigits == <<"-0", "-1", "-2", "-3", "-4", "-5", "-6", "-7", "-8", "-9">>

IntText(n) == IF n >= 0 THEN Digits[n + 1] ELSE NegDigits[(0 - n) + 1]

\* int(): the integer a text denotes, for the texts that denote one
TextToInt ==
    [s \in {IntText(n) : n \in (0 - 9)..9} |->
        CHOOSE n \in (0 - 9)..9 : IntText(n) = s]

\* int(s) succeeds exactly on the text of an integer
IntParses(s) == s \in DOMAIN TextToInt

int(s) == TextToInt[s]

(***************************************************************************)
(* PriorityArbiter.PRIORITY_RULES and the .get(order_type, 999) lookups.   *)
(***************************************************************************)
\* the table with webshop ranked above fleet_spot
PRIORITY_RULES_WebshopSecond ==
    [fleet_framework |-> 1, fleet_spot |-> 3, webshop |-> 2]

PRIORITY_RULES ==
    [fleet_framework |-> 1, fleet_spot |-> 2, webshop |-> 3]

UnknownRank == 999

Priority(order_type) ==
    IF order_type \in DOMAIN PRIORITY_RULES
    THEN PRIORITY_RULES[order_type]
    ELSE UnknownRank

(***************************************************************************)
(* DatasetLoader: bom.csv and get_bom_mapping.                             *)
(***************************************************************************)
\* rows of a bom.csv: S1/V1 uses part P300 (and P301), S2/V1 only P301
BomSample ==
    << [model |-> "S1", version |-> "V1", part_id |-> "P300", qty_per_unit |-> "1"],
       [model |-> "S1", version |-> "V1", part_id |-> "P301", qty_per_unit |-> "2"],
       [model |-> "S2", version |-> "V1", part_id |-> "P301", qty_per_unit |-> "1"] >>

\* _load_csv: None for a missing file (exists = FALSE), else its rows
BomMissing == [exists |-> FALSE, data |-> <<>>]

\* DatasetLoader(): the constructor raises on len(self.bom) when bom is None
DatasetLoaderRaises(b) == ~b.exists

get_bom_mapping(b, model, version) ==
    IF b.data = <<>> THEN <<>>
    ELSE SelectSeq(b.data, LAMBDA row : row.model = model /\ row.version = version)

(***************************************************************************)
(* PriorityArbiter._calculate_part_demand: expand the sales orders into    *)
(* part-level demand.  The result is [raised, value]: raised when          *)
(* DatasetLoader() or an int() conversion threw.                           *)
(***************************************************************************)
\* the first BOM entry of the model/version that references the part (the
\* inner loop breaks after it); 0 when there is none
FirstBomMatch(bom_entries, part_id) ==
    IF \E k \in 1..Len(bom_entries) : bom_entries[k].part_id = part_id
    THEN CHOOSE k \in 1..Len(bom_entries) :
            /\ bom_entries[k].part_id = part_id
            /\ \A j \in 1..(k - 1) : bom_entries[j].part_id # part_id
    ELSE 0

RECURSIVE PartDemandLoop(_, _, _, _, _)
PartDemandLoop(part_id, rows, b, i, acc) ==
    IF i > Len(rows) THEN [raised |-> FALSE, value |-> acc]
    ELSE LET sales_order == rows[i]
             bom_entries == get_bom_mapping(b, sales_order.model, sales_order.version)
             k == FirstBomMatch(bom_entries, part_id)
         IN  IF ~IntParses(sales_order.quantity)
             THEN [raised |-> TRUE, value |-> <<>>]
             ELSE IF k = 0
             THEN PartDemandLoop(part_id, rows, b, i + 1, acc)
             ELSE IF ~IntParses(bom_entries[k].qty_per_unit)
             THEN [raised |-> TRUE, value |-> <<>>]
             ELSE LET order_quantity == int(sales_order.quantity)
                      qty_per_unit == int(bom_entries[k].qty_per_unit)
                  IN  PartDemandLoop(part_id, rows, b, i + 1,
                         Append(acc,
                            [order_id |-> sales_order.sales_order_id,
                             order_type |-> sales_order.order_type,
                             model |-> sales_order.model,
                             version |-> sales_order.version,
                             order_quantity |-> order_quantity,
                             qty_per_unit |-> qty_per_unit,
                             total_quantity |-> order_quantity * qty_per_unit]))

_calculate_part_demand(part_id, rows, b) ==
    IF DatasetLoaderRaises(b)
    THEN [raised |-> TRUE, value |-> <<>>]
    ELSE PartDemandLoop(part_id, rows, b, 1, <<>>)

(***************************************************************************)
(* PriorityArbiter._group_part_demand_by_type: a dict keeps its keys in    *)
(* insertion order, so the groups are a sequence of                        *)
(* [order_type, demands] in order of first appearance.                     *)
(***************************************************************************)
RECURSIVE GroupLoop(_, _, _)
GroupLoop(demands, i, grouped) ==
    IF i > Len(demands) THEN grouped
    ELSE LET demand == demands[i]
             order_type == demand.order_type
         IN  IF \E g \in 1..Len(grouped) : grouped[g].order_type = order_type
             THEN GroupLoop(demands, i + 1,
                     [g \in 1..Len(grouped) |->
                        IF grouped[g].order_type = order_type
                        THEN [grouped[g] EXCEPT !.demands = Append(@, demand)]
                        ELSE grouped[g]])
             ELSE GroupLoop(demands, i + 1,
                     Append(grouped, [order_type |-> order_type,
                                      demands |-> <<demand>>]))

\* grouping that assigns instead of appending: a group keeps its last row
RECURSIVE GroupLoop_Overwrite(_, _, _)
GroupLoop_Overwrite(demands, i, grouped) ==
    IF i > Len(demands) THEN grouped
    ELSE LET demand == demands[i]
             order_type == demand.order_type
         IN  IF \E g \in 1..Len(grouped) : grouped[g].order_type = order_type
             THEN GroupLoop_Overwrite(demands, i + 1,
                     [g \in 1..Len(grouped) |->
                        IF grouped[g].order_type = order_type
                        THEN [grouped[g] EXCEPT !.demands = <<demand>>]
                        ELSE grouped[g]])
             ELSE GroupLoop_Overwrite(demands, i + 1,
                     Append(grouped, [order_type |-> order_type,
                                      demands |-> <<demand>>]))

_group_part_demand_by_type_Overwrite(demands) ==
    GroupLoop_Overwrite(demands, 1, <<>>)

\* grouping that inserts a row at the head of its group
RECURSIVE GroupLoop_Prepend(_, _, _)
GroupLoop_Prepend(demands, i, grouped) ==
    IF i > Len(demands) THEN grouped
    ELSE LET demand == demands[i]
             order_type == demand.order_type
         IN  IF \E g \in 1..Len(grouped) : grouped[g].order_type = order_type
             THEN GroupLoop_Prepend(demands, i + 1,
                     [g \in 1..Len(grouped) |->
                        IF grouped[g].order_type = order_type
                        THEN [grouped[g] EXCEPT !.demands = <<demand>> \o @]
                        ELSE grouped[g]])
             ELSE GroupLoop_Prepend(demands, i + 1,
                     Append(grouped, [order_type |-> order_type,
                                      demands |-> <<demand>>]))

_group_part_demand_by_type_Prepend(demands) ==
    GroupLoop_Prepend(demands, 1, <<>>)

_group_part_demand_by_type(demands) == GroupLoop(demands, 1, <<>>)

(***************************************************************************)
(* PriorityArbiter._sort_by_priority: sorted() is stable, modelled as an   *)
(* insertion sort that puts a group after all groups of rank <= its own.   *)
(***************************************************************************)
InsertByPriority(sorted, group) ==
    LET before == SelectSeq(sorted, LAMBDA g :
                     Priority(g.order_type) <= Priority(group.order_type))
        after == SelectSeq(sorted, LAMBDA g :
                     Priority(g.order_type) > Priority(group.order_type))
    IN  before \o <<group>> \o after

RECURSIVE SortLoop(_, _, _)
SortLoop(groups, i, sorted) ==
    IF i > Len(groups) THEN sorted
    ELSE SortLoop(groups, i + 1, InsertByPriority(sorted, groups[i]))

\* the groups left in the order the dict holds them
_sort_by_priority_Unsorted(grouped_orders) == grouped_orders

_sort_by_priority(grouped_orders) == SortLoop(grouped_orders, 1, <<>>)

(***************************************************************************)
(* PriorityArbiter._allocate_part_stock: the greedy walk.  The walk state  *)
(* is the allocation dict, remaining_stock and the log of results in the   *)
(* order they were made.                                                   *)
(***************************************************************************)
AllocationResult(order_id, order_type, requested_quantity, allocated_quantity, status) ==
    [order_id |-> order_id, order_type |-> order_type,
     requested_quantity |-> requested_quantity,
     allocated_quantity |-> allocated_quantity, status |-> status]

\* a comparison the wrong way round
CanFulfil_Swapped(remaining_stock, requested_quantity) ==
    requested_quantity >= remaining_stock

\* a strict comparison: an order for exactly the remaining stock is refused
CanFulfil_Strict(remaining_stock, requested_quantity) ==
    remaining_stock > requested_quantity

\* if remaining_stock >= requested_quantity
CanFulfil(remaining_stock, requested_quantity) ==
    remaining_stock >= requested_quantity

\* a partial allocation of nothing
CanAllocatePartially_AtZero(remaining_stock) == remaining_stock >= 0

\* elif remaining_stock > 0
CanAllocatePartially(remaining_stock) == remaining_stock > 0

\* full fulfillment that forgets to take the quantity from the stock
Fulfil_NoDecrement(st, order_id, order_type, requested_quantity) ==
    LET r == AllocationResult(order_id, order_type, requested_quantity,
                              requested_quantity, "fulfilled")
    IN  [st EXCEPT !.fulfilled = Append(@, r), !.log = Append(@, r)]

\* full fulfillment
Fulfil(st, order_id, order_type, requested_quantity) ==
    LET r == AllocationResult(order_id, order_type, requested_quantity,
                              requested_quantity, "fulfilled")
    IN  [st EXCEPT !.fulfilled = Append(@, r),
                   !.remaining_stock = @ - requested_quantity,
                   !.log = Append(@, r)]

\* partial fulfillment that grants the whole request
AllocatePartially_GrantsRequest(st, order_id, order_type, requested_quantity) ==
    LET r == AllocationResult(order_id, order_type, requested_quantity,
                              requested_quantity, "partial")
    IN  [st EXCEPT !.partial = Append(@, r),
                   !.remaining_stock = 0,
                   !.log = Append(@, r)]

\* partial fulfillment that leaves remaining_stock as it was
AllocatePartially_KeepsStock(st, order_id, order_type, requested_quantity) ==
    LET r == AllocationResult(order_id, order_type, requested_quantity,
                              st.remaining_stock, "partial")
    IN  [st EXCEPT !.partial = Append(@, r), !.log = Append(@, r)]

\* partial fulfillment: the order gets what is left
AllocatePartially(st, order_id, order_type, requested_quantity) ==
    LET r == AllocationResult(order_id, order_type, requested_quantity,
                              st.remaining_stock, "partial")
    IN  [st EXCEPT !.partial = Append(@, r),
                   !.remaining_stock = 0,
                   !.log = Append(@, r)]

\* delayed
Delay(st, order_id, order_type, requested_quantity) ==
    LET r == AllocationResult(order_id, order_type, requested_quantity,
                              0, "delayed")
    IN  [st EXCEPT !.delayed = Append(@, r), !.log = Append(@, r)]

\* the body of the inner loop, for one demand row
AllocateOne(st, order_type, demand) ==
    LET order_id == demand.order_id
        requested_quantity == demand.total_quantity
    IN  IF CanFulfil(st.remaining_stock, requested_quantity)
        THEN Fulfil(st, order_id, order_type, requested_quantity)
        ELSE IF CanAllocatePartially(st.remaining_stock)
        THEN AllocatePartially(st, order_id, order_type, requested_quantity)
        ELSE Delay(st, order_id, order_type, requested_quantity)

RECURSIVE AllocateDemands(_, _, _, _)
AllocateDemands(st, order_type, demands, i) ==
    IF i > Len(demands) THEN st
    ELSE AllocateDemands(AllocateOne(st, order_type, demands[i]),
                         order_type, demands, i + 1)

RECURSIVE AllocateGroups(_, _, _)
AllocateGroups(st, sorted_groups, g) ==
    IF g > Len(sorted_groups) THEN st
    ELSE AllocateGroups(
            AllocateDemands(st, sorted_groups[g].order_type,
                            sorted_groups[g].demands, 1),
            sorted_groups, g + 1)

_allocate_part_stock(stock, sorted_groups) ==
    AllocateGroups([fulfilled |-> <<>>, partial |-> <<>>, delayed |-> <<>>,
                    remaining_stock |-> stock, log |-> <<>>],
                   sorted_groups, 1)

Allocation(st) ==
    [fulfilled |-> st.fulfilled, partial |-> st.partial, delayed |-> st.delayed]

(***************************************************************************)
(* The three kinds of PriorityResolution.  summary is the kind of text     *)
(* the f-string produces.                                                  *)
(***************************************************************************)
RECURSIVE SumTotalQuantity(_, _)
SumTotalQuantity(demands, i) ==
    IF i > Len(demands) THEN 0
    ELSE demands[i].total_quantity + SumTotalQuantity(demands, i + 1)

EmptyAllocation == [fulfilled |-> <<>>, partial |-> <<>>, delayed |-> <<>>]

_create_empty_resolution(material, stock) ==
    [material |-> material, available_stock |-> stock, total_demand |-> 0,
     allocation |-> EmptyAllocation, delayed_orders |-> <<>>,
     summary |-> "No pending orders"]

_create_fallback_resolution(material, stock) ==
    [material |-> material, available_stock |-> stock, total_demand |-> 0,
     allocation |-> EmptyAllocation, delayed_orders |-> <<>>,
     summary |-> "Allocation processing error - manual review required"]

(***************************************************************************)
(* PriorityArbiter.resolve_conflict.  The result carries, next to the      *)
(* resolution, the part demand and the allocator's log for the record.     *)
(* The body runs inside try/except Exception, so whatever is raised in it  *)
(* ends in the fallback resolution and nothing escapes to the caller.      *)
(***************************************************************************)
\* without the try/except: what _calculate_part_demand raises reaches the caller
resolve_conflict_NoExcept(material, stock, rows, b) ==
    LET pd == _calculate_part_demand(material, rows, b)
    IN  IF pd.raised
        THEN [resolution |-> None,
              part_demand |-> pd, served |-> <<>>, escaped |-> TRUE]
        ELSE IF pd.value = <<>>
        THEN [resolution |-> _create_empty_resolution(material, stock),
              part_demand |-> pd, served |-> <<>>, escaped |-> FALSE]
        ELSE LET grouped_demand == _group_part_demand_by_type(pd.value)
                 sorted_groups == _sort_by_priority(grouped_demand)
                 st == _allocate_part_stock(stock, sorted_groups)
                 allocation_plan == Allocation(st)
                 total_demand == SumTotalQuantity(pd.value, 1)
             IN  [resolution |->
                     [material |-> material, available_stock |-> stock,
                      total_demand |-> total_demand,
                      allocation |-> allocation_plan,
                      delayed_orders |->
                         [k \in 1..Len(allocation_plan.delayed) |->
                            allocation_plan.delayed[k].order_id],
                      summary |-> "fulfilled/partial/delayed counts"],
                  part_demand |-> pd, served |-> st.log, escaped |-> FALSE]

resolve_conflict(material, stock, rows, b) ==
    LET pd == _calculate_part_demand(material, rows, b)
    IN  IF pd.raised
        THEN [resolution |-> _create_fallback_resolution(material, stock),
              part_demand |-> pd, served |-> <<>>, escaped |-> FALSE]
        ELSE IF pd.value = <<>>
        THEN [resolution |-> _create_empty_resolution(material, stock),
              part_demand |-> pd, served |-> <<>>, escaped |-> FALSE]
        ELSE LET grouped_demand == _group_part_demand_by_type(pd.value)
                 sorted_groups == _sort_by_priority(grouped_demand)
                 st == _allocate_part_stock(stock, sorted_groups)
                 allocation_plan == Allocation(st)
                 total_demand == SumTotalQuantity(pd.value, 1)
             IN  [resolution |->
                     [material |-> material, available_stock |-> stock,
                      total_demand |-> total_demand,
                      allocation |-> allocation_plan,
                      delayed_orders |->
                         [k \in 1..Len(allocation_plan.delayed) |->
                            allocation_plan.delayed[k].order_id],
                      summary |-> "fulfilled/partial/delayed counts"],
                  part_demand |-> pd, served |-> st.log, escaped |-> FALSE]

(***************************************************************************)
(* The inputs of a call.                                                   *)
(***************************************************************************)
\* the three types of the priority table and two outside it ("unknown" is
\* the default of a row without order_type)
OrderTypes == {"fleet_framework", "fleet_spot", "webshop", "retail", "unknown"}

Models == {"S1", "S2"}

Materials == {"P300"}

\* the text of a quantity field: a signed integer
RawQuantities == {IntText(n) : n \in MinQty..MaxQty}

BomTables == {[exists |-> TRUE, data |-> BomSample]}

\* rows of a model whose BOM has the part, of every order type and
\* quantity; a row of a model whose BOM lacks the part (it is skipped);
\* a row whose quantity int() rejects
SalesOrderFields ==
    [model : {"S1"}, quantity : RawQuantities, order_type : OrderTypes]
    \cup {[model |-> "S2", quantity |-> "1", order_type |-> "webshop"],
          [model |-> "S1", quantity |-> "x", order_type |-> "webshop"]}

SalesOrderRow(i, f) ==
    [sales_order_id |-> i, model |-> f.model, version |-> "V1",
     quantity |-> f.quantity, order_type |-> f.order_type]

\* no second call is being followed
RepeatIdle ==
    /\ calls = 0
    /\ first_resolution = None
    /\ first_bom = BomMissing

\* no batch of the balancer is being followed
BatchIdle ==
    /\ csv = [sales_orders |-> BomMissing, stock_levels |-> BomMissing,
              material_master |-> BomMissing, bom |-> BomMissing]
    /\ recommendations = <<>>
    /\ rec_index = 1
    /\ conflicts = <<>>
    /\ errors = <<>>

\* no LLM entry point is running
LLMIdle ==
    /\ op = "none"
    /\ llm_pc = "idle"
    /\ attempt = 0
    /\ waits = <<>>
    /\ posts = <<>>
    /\ response = ""
    /\ repair_attempt = 0
    /\ llm_result = [raised |-> FALSE, error |-> "", text |-> "",
                     data |-> [trigger_alert |-> "absent", urgency |-> "absent",
                               reason |-> "absent", answer |-> "absent"],
                     decision |-> [trigger_alert |-> FALSE, urgency |-> "",
                                   should_escalate |-> FALSE, error |-> "",
                                   is_fallback |-> FALSE]]
    /\ llm_error = ""
    /\ change_event = [change_type |-> "delay", po_priority |-> "normal"]

\* no thread of the agent is running
AgentIdle ==
    /\ _client = None
    /\ purchase_orders = <<>>
    /\ thread_op = <<>>
    /\ thread_pc = <<>>
    /\ emails = <<>>
    /\ email_index = <<>>
    /\ matched = <<>>
    /\ saw_none = <<>>
    /\ client_used = <<>>
    /\ clients_built = 0
    /\ update_args = <<>>

\* no scoring function is called
RiskIdle ==
    /\ risk_fn = "none"
    /\ risk_pc = "idle"
    /\ signal = <<>>
    /\ delay_days = <<>>
    /\ quantity_change = <<>>
    /\ risk_po = ""
    /\ context = <<>>
    /\ change = <<>>
    /\ unmapped = FALSE
    /\ risk_score = 0
    /\ severity = ""

HoardingIdle ==
    /\ hoarding_pc = "idle"
    /\ summary = <<>>
    /\ hoarding_result = <<>>

InboxIdle ==
    /\ inbox_fn = "none"
    /\ inbox_pc = "idle"
    /\ inbox = <<>>
    /\ inbox_index = 1
    /\ metrics = <<>>
    /\ alerts = <<>>
    /\ gate_change = <<>>
    /\ gate_po_reference = <<>>
    /\ gate_unmapped = FALSE
    /\ gate_result = FALSE

RecommendIdle ==
    /\ recommend_pc = "idle"
    /\ avg_demand = 0
    /\ volatility = 0
    /\ recommended = <<>>

PipelineIdle ==
    /\ pipeline_pc = "idle"
    /\ email_text = ""
    /\ erp_csv_exists = FALSE
    /\ data_path = "None"
    /\ pipeline_result = <<>>

OptimizerIdle ==
    /\ optimizer_pc = "idle"
    /\ part_data = <<>>
    /\ primary_outcome = ""
    /\ fallback_outcome = ""
    /\ optimized = <<>>

ServiceIdle == RiskIdle /\ HoardingIdle /\ InboxIdle /\ RecommendIdle /\ PipelineIdle /\ OptimizerIdle

TypeOK ==
    /\ pc \in {"ready", "done"}
    /\ material_id \in Materials
    /\ available_stock \in 0..MaxStock
    /\ Len(sales_orders) <= MaxOrders
    /\ bom \in BomTables

Init ==
    /\ pc = "ready"
    /\ material_id \in Materials
    /\ available_stock \in 0..MaxStock
    /\ \E n \in 0..MaxOrders :
         \E f \in [1..n -> SalesOrderFields] :
            sales_orders = [i \in 1..n |-> SalesOrderRow(i, f[i])]
    /\ bom \in BomTables
    /\ resolution = None
    /\ part_demand = [raised |-> FALSE, value |-> <<>>]
    /\ served = <<>>
    /\ escaped = FALSE
    /\ RepeatIdle
    /\ BatchIdle /\ LLMIdle /\ AgentIdle /\ ServiceIdle

\* one call of resolve_conflict
ResolveConflict ==
    /\ pc = "ready"
    /\ \E r \in {resolve_conflict(material_id, available_stock, sales_orders, bom)} :
           /\ resolution' = r.resolution
           /\ part_demand' = r.part_demand
           /\ served' = r.served
           /\ escaped' = r.escaped
    /\ pc' = "done"
    /\ UNCHANGED <<material_id, available_stock, sales_orders, bom>>
    /\ UNCHANGED <<repeat_vars, batch_vars, llm_vars, agent_vars, service_vars>>

Next == ResolveConflict

Spec == Init /\ [][Next]_vars

(***************************************************************************)
(* Vocabulary of the properties.                                           *)
(***************************************************************************)
Done == pc = "done"

Fulfilled == resolution.allocation.fulfilled

Partial == resolution.allocation.partial

Delayed == resolution.allocation.delayed

AllResults == Fulfilled \o Partial \o Delayed

RECURSIVE SumAllocated(_, _)
SumAllocated(results, i) ==
    IF i > Len(results) THEN 0
    ELSE results[i].allocated_quantity + SumAllocated(results, i + 1)

AllocatedTotal == SumAllocated(Fulfilled \o Partial, 1)

Min(a, b) == IF a <= b THEN a ELSE b

\* no entry of the resolution requests a negative quantity
NonNegativeRequests ==
    \A k \in 1..Len(AllResults) : AllResults[k].requested_quantity >= 0

\* the priority tier of an order type as the specification states it
TierRank(order_type) ==
    CASE order_type = "fleet_framework" -> 1
      [] order_type = "fleet_spot" -> 2
      [] order_type = "webshop" -> 3
      [] OTHER -> 4

(***************************************************************************)
(* C1 (conservation): for every resolution returned by resolve_conflict    *)
(* the allocated quantities of the fulfilled and partial entries sum to    *)
(* min(available_stock, total_demand).                                     *)
(***************************************************************************)
C1_Conservation ==
    Done => AllocatedTotal = Min(resolution.available_stock, resolution.total_demand)

\* C1 as amended: the same, for available_stock >= 0 and entries that
\* request no negative quantity
C1_ConservationNonNegative ==
    (Done /\ resolution.available_stock >= 0 /\ NonNegativeRequests)
        => AllocatedTotal = Min(resolution.available_stock, resolution.total_demand)

\* the example of the specification in small: the higher tier is fulfilled,
\* the lower tier gets the rest of the stock
C1_Witness ==
    /\ Done
    /\ NonNegativeRequests
    /\ resolution.available_stock = 2
    /\ resolution.total_demand = 3
    /\ Len(Fulfilled) = 1 /\ Fulfilled[1].order_type = "fleet_framework"
    /\ Len(Partial) = 1 /\ Partial[1].order_type = "webshop"
    /\ Partial[1].allocated_quantity = 1

(***************************************************************************)
(* C2 (no over-allocation): with available_stock >= 0 the allocated        *)
(* quantities of the fulfilled and partial entries never sum to more than  *)
(* available_stock, whatever the order quantities are.                     *)
(***************************************************************************)
C2_NoOverAllocation ==
    (Done /\ resolution.available_stock >= 0)
        => AllocatedTotal <= resolution.available_stock

\* a resolution with a negative request that still hands out all the stock
C2_Witness ==
    /\ Done
    /\ resolution.available_stock > 0
    /\ \E k \in 1..Len(Fulfilled) : Fulfilled[k].requested_quantity < 0
    /\ Len(Partial) >= 1
    /\ AllocatedTotal = resolution.available_stock

(***************************************************************************)
(* C3 (priority monotonicity): if order A has a strictly higher priority   *)
(* tier than order B and both are in the same resolution, A is not         *)
(* delayed while B is fulfilled.                                           *)
(***************************************************************************)
C3_PriorityMonotonicity ==
    Done =>
        \A a \in 1..Len(Delayed) : \A b \in 1..Len(Fulfilled) :
            ~(TierRank(Delayed[a].order_type) < TierRank(Fulfilled[b].order_type))

\* C3 as amended: when no entry requests a negative quantity, A is not
\* delayed while B is fulfilled with a positive quantity
C3_PriorityMonotonicityPositive ==
    (Done /\ NonNegativeRequests) =>
        \A a \in 1..Len(Delayed) : \A b \in 1..Len(Fulfilled) :
            (TierRank(Delayed[a].order_type) < TierRank(Fulfilled[b].order_type))
                => Fulfilled[b].requested_quantity = 0

\* the lower-tier order comes first in the input and wants the stock the
\* higher-tier order gets
C3_Witness ==
    /\ Done
    /\ NonNegativeRequests
    /\ \E a \in 1..Len(Fulfilled) : \E b \in 1..Len(Delayed) :
          /\ TierRank(Fulfilled[a].order_type) < TierRank(Delayed[b].order_type)
          /\ Delayed[b].order_id < Fulfilled[a].order_id
          /\ Fulfilled[a].requested_quantity > 0
          /\ Delayed[b].requested_quantity <= resolution.available_stock

(***************************************************************************)
(* C4 (partition): every demand entry obtained by expanding the sales      *)
(* orders appears in exactly one of the fulfilled, partial and delayed     *)
(* lists: none is dropped, none appears twice.                             *)
(***************************************************************************)
C4_Partition ==
    (Done /\ ~part_demand.raised) =>
        /\ Len(AllResults) = Len(part_demand.value)
        /\ \A i \in 1..Len(part_demand.value) :
              Cardinality({k \in 1..Len(AllResults) :
                  /\ AllResults[k].order_id = part_demand.value[i].order_id
                  /\ AllResults[k].order_type = part_demand.value[i].order_type
                  /\ AllResults[k].requested_quantity
                        = part_demand.value[i].total_quantity}) = 1

\* two entries of one order type and a sales order the BOM lookup skips
C4_Witness ==
    /\ Done
    /\ ~part_demand.raised
    /\ Len(part_demand.value) = 2
    /\ Len(sales_orders) = 3
    /\ part_demand.value[1].order_type = part_demand.value[2].order_type
    /\ Len(Fulfilled) = 1 /\ Len(Delayed) = 1

(***************************************************************************)
(* C5 (status and quantity): fulfilled implies allocated = requested,      *)
(* partial implies 0 < allocated < requested, delayed implies              *)
(* allocated = 0.                                                          *)
(***************************************************************************)
C5_StatusQuantity ==
    Done =>
        \A k \in 1..Len(AllResults) :
            LET r == AllResults[k]
            IN  /\ r.status \in {"fulfilled", "partial", "delayed"}
                /\ r.status = "fulfilled" => r.allocated_quantity = r.requested_quantity
                /\ r.status = "partial" =>
                      (0 < r.allocated_quantity
                       /\ r.allocated_quantity < r.requested_quantity)
                /\ r.status = "delayed" => r.allocated_quantity = 0

\* one entry of each status
C5_Witness ==
    /\ Done
    /\ \E k \in 1..Len(AllResults) : AllResults[k].status = "fulfilled"
    /\ \E k \in 1..Len(AllResults) : AllResults[k].status = "partial"
    /\ \E k \in 1..Len(AllResults) : AllResults[k].status = "delayed"

(***************************************************************************)
(* C6 (partial uniqueness): a resolution has at most one partial entry.    *)
(***************************************************************************)
C6_PartialUnique == Done => Len(Partial) <= 1

\* C6 as amended: at most one partial entry when no entry requests a
\* negative quantity
C6_PartialUniqueNonNegative == (Done /\ NonNegativeRequests) => Len(Partial) <= 1

\* a partial entry followed by two entries that find the stock exhausted
C6_Witness ==
    /\ Done
    /\ NonNegativeRequests
    /\ Len(Partial) = 1
    /\ Len(Delayed) = 2
    /\ \A k \in 1..2 : Delayed[k].requested_quantity > 0

(***************************************************************************)
(* C7 (no stock): when available_stock is 0 every entry is delayed, none   *)
(* is fulfilled and none is partial.                                       *)
(***************************************************************************)
C7_ZeroStockAllDelayed ==
    (Done /\ resolution.available_stock = 0)
        => (Len(Fulfilled) = 0 /\ Len(Partial) = 0)

\* C7 as amended: when available_stock is 0 and no entry requests a
\* negative quantity, none is partial and only entries that request 0 are
\* fulfilled: every entry that requests a positive quantity is delayed
C7_ZeroStockPositiveDelayed ==
    (Done /\ resolution.available_stock = 0 /\ NonNegativeRequests)
        => /\ Len(Partial) = 0
           /\ \A k \in 1..Len(Fulfilled) : Fulfilled[k].requested_quantity = 0

\* no stock, three entries of different tiers, all of them delayed
C7_Witness ==
    /\ Done
    /\ resolution.available_stock = 0
    /\ Len(Delayed) = 3
    /\ Len(Fulfilled) = 0
    /\ Delayed[1].order_type # Delayed[3].order_type

(***************************************************************************)
(* C8 (enough stock): when available_stock >= total_demand every entry is  *)
(* fulfilled and the partial and delayed lists are empty.                  *)
(***************************************************************************)
C8_EnoughStockAllFulfilled ==
    (Done /\ resolution.available_stock >= resolution.total_demand)
        => (Len(Partial) = 0 /\ Len(Delayed) = 0)

\* C8 as amended: the same when no entry requests a negative quantity
C8_EnoughStockNonNegative ==
    (Done /\ resolution.available_stock >= resolution.total_demand
          /\ NonNegativeRequests /\ ~part_demand.raised)
        => /\ Len(Partial) = 0
           /\ Len(Delayed) = 0
           /\ Len(Fulfilled) = Len(part_demand.value)

\* the stock is exactly the total demand of two entries of different tiers
C8_Witness ==
    /\ Done
    /\ NonNegativeRequests
    /\ resolution.total_demand = resolution.available_stock
    /\ Len(Fulfilled) = 2
    /\ Fulfilled[1].requested_quantity = 1
    /\ Fulfilled[2].requested_quantity = 1
    /\ Fulfilled[1].order_type # Fulfilled[2].order_type

RulesByRank ==
    CHOOSE s \in [1..Cardinality(DOMAIN PRIORITY_RULES) -> DOMAIN PRIORITY_RULES] :
       /\ \A i \in DOMAIN s : \A j \in DOMAIN s : i # j => s[i] # s[j]
       /\ \A i \in DOMAIN s : \A j \in DOMAIN s :
             i < j => PRIORITY_RULES[s[i]] <= PRIORITY_RULES[s[j]]

(***************************************************************************)
(* C27 (webshop before fleet_spot): sorting the order types of             *)
(* PRIORITY_RULES by rank gives fleet_framework, webshop, fleet_spot, and  *)
(* no fleet_spot order is served before a webshop order.                   *)
(***************************************************************************)
C27_WebshopBeforeFleetSpot ==
    Done =>
        /\ RulesByRank = <<"fleet_framework", "webshop", "fleet_spot">>
        /\ \A i \in 1..Len(served) : \A j \in 1..Len(served) :
              (served[i].order_type = "fleet_spot" /\ served[j].order_type = "webshop")
                 => j < i

(***************************************************************************)
(* C10 (first come, first served): within a tier an order receives a       *)
(* positive allocation only if every order of the same tier that precedes  *)
(* it in the input is fully fulfilled.                                     *)
(***************************************************************************)
FirstComeFirstServed ==
    \A k \in 1..Len(AllResults) : \A j \in 1..Len(AllResults) :
        (/\ AllResults[k].allocated_quantity > 0
         /\ TierRank(AllResults[j].order_type) = TierRank(AllResults[k].order_type)
         /\ AllResults[j].order_id < AllResults[k].order_id)
            => (/\ AllResults[j].status = "fulfilled"
                /\ AllResults[j].allocated_quantity = AllResults[j].requested_quantity)

C10_FirstComeFirstServed == Done => FirstComeFirstServed

\* C10 as amended: when no entry requests a negative quantity, an order
\* receives a positive allocation only if every order of the same order
\* type that precedes it in the input is fully fulfilled
C10_FirstComeFirstServedPerType ==
    (Done /\ NonNegativeRequests) =>
        \A k \in 1..Len(AllResults) : \A j \in 1..Len(AllResults) :
            (/\ AllResults[k].allocated_quantity > 0
             /\ AllResults[j].order_type = AllResults[k].order_type
             /\ AllResults[j].order_id < AllResults[k].order_id)
                => (/\ AllResults[j].status = "fulfilled"
                    /\ AllResults[j].allocated_quantity
                          = AllResults[j].requested_quantity)

\* the same with "tier" read as rank: it fails for two order types outside
\* the priority table, which share rank 999 but are served group by group
C10_FirstComeFirstServedNonNegative ==
    (Done /\ NonNegativeRequests) => FirstComeFirstServed

\* two webshop orders with a fleet order between them in the input: the
\* earlier webshop order is fulfilled, the later one gets the rest
C10_Witness ==
    /\ Done
    /\ NonNegativeRequests
    /\ \E j \in 1..Len(Fulfilled) : \E k \in 1..Len(Partial) :
          /\ Fulfilled[j].order_type = "webshop"
          /\ Partial[k].order_type = "webshop"
          /\ Fulfilled[j].requested_quantity > 0
          /\ Fulfilled[j].order_id + 1 < Partial[k].order_id

(***************************************************************************)
(* C11 (exhaustion): once some order has been marked partial or delayed,   *)
(* every order walked after it, in that tier and in all lower tiers, is    *)
(* marked delayed or partial; none of them is marked fulfilled.            *)
(***************************************************************************)
C11_ExhaustedNoneFulfilled ==
    Done =>
        \A i \in 1..Len(served) : \A j \in 1..Len(served) :
            (i < j /\ served[i].status \in {"partial", "delayed"})
                => served[j].status \in {"partial", "delayed"}

\* C11 as amended: when no entry requests a negative quantity, every order
\* walked after a partial or delayed one is delayed, unless it requests 0
\* (such an order is marked fulfilled)
C11_ExhaustedPositiveDelayed ==
    (Done /\ NonNegativeRequests) =>
        \A i \in 1..Len(served) : \A j \in 1..Len(served) :
            (i < j /\ served[i].status \in {"partial", "delayed"})
                => \/ served[j].status = "delayed"
                   \/ (served[j].status = "fulfilled"
                       /\ served[j].requested_quantity = 0)

\* the stock runs out in the first tier; an order of that tier and an order
\* of a lower tier follow
C11_Witness ==
    /\ Done
    /\ NonNegativeRequests
    /\ Len(served) = 3
    /\ served[1].status = "partial"
    /\ served[2].status = "delayed" /\ served[3].status = "delayed"
    /\ served[2].order_type = served[1].order_type
    /\ TierRank(served[2].order_type) < TierRank(served[3].order_type)

(***************************************************************************)
(* A caller that calls resolve_conflict twice with the same arguments.     *)
(* _calculate_part_demand builds a new DatasetLoader() in every call, so   *)
(* each call reads bom.csv as it stands then; the file is outside the      *)
(* program and may be rewritten between the calls.                         *)
(***************************************************************************)
MaxRepeatOrders == 2    \* rows of sales_orders in the repeated call

\* a bom.csv that lists the part twice for one model/version
BomDuplicate ==
    << [model |-> "S1", version |-> "V1", part_id |-> "P300", qty_per_unit |-> "1"],
       [model |-> "S1", version |-> "V1", part_id |-> "P300", qty_per_unit |-> "2"],
       [model |-> "S2", version |-> "V1", part_id |-> "P301", qty_per_unit |-> "1"] >>

\* a bom.csv whose qty_per_unit int() rejects
BomBadQty ==
    << [model |-> "S1", version |-> "V1", part_id |-> "P300", qty_per_unit |-> "x"] >>

\* the states of bom.csv: the three tables, a file with a header only, no file
BomFiles ==
    {[exists |-> TRUE, data |-> BomSample],
     [exists |-> TRUE, data |-> BomDuplicate],
     [exists |-> TRUE, data |-> BomBadQty],
     [exists |-> TRUE, data |-> <<>>],
     BomMissing}

RepeatOrderFields ==
    [model : {"S1"},
     quantity : {IntText(n) : n \in 1..MaxQty} \cup {"x"},
     order_type : {"fleet_framework", "webshop"}]
    \cup {[model |-> "S2", quantity |-> "1", order_type |-> "webshop"]}

InitRepeat ==
    /\ pc = "ready"
    /\ material_id \in Materials
    /\ available_stock \in 0..MaxStock
    /\ \E n \in 0..MaxRepeatOrders :
         \E f \in [1..n -> RepeatOrderFields] :
            sales_orders = [i \in 1..n |-> SalesOrderRow(i, f[i])]
    /\ bom \in BomFiles
    /\ resolution = None
    /\ part_demand = [raised |-> FALSE, value |-> <<>>]
    /\ served = <<>>
    /\ escaped = FALSE
    /\ RepeatIdle
    /\ BatchIdle /\ LLMIdle /\ AgentIdle /\ ServiceIdle

\* the first call; the caller keeps what it returned
FirstCall ==
    /\ pc = "ready"
    /\ calls = 0
    /\ \E r \in {resolve_conflict(material_id, available_stock, sales_orders, bom)} :
           /\ resolution' = r.resolution
           /\ first_resolution' = r.resolution
           /\ part_demand' = r.part_demand
           /\ served' = r.served
           /\ escaped' = r.escaped
    /\ first_bom' = bom
    /\ calls' = 1
    /\ pc' = "done"
    /\ UNCHANGED <<material_id, available_stock, sales_orders, bom>>
    /\ UNCHANGED <<batch_vars, llm_vars, agent_vars, service_vars>>

\* bom.csv is rewritten between the two calls
RewriteBom ==
    /\ pc = "done"
    /\ calls = 1
    /\ bom = first_bom
    /\ bom' \in BomFiles \ {bom}
    /\ UNCHANGED <<pc, material_id, available_stock, sales_orders, resolution,
                   part_demand, served, escaped, repeat_vars>>
    /\ UNCHANGED <<batch_vars, llm_vars, agent_vars, service_vars>>

\* the arbiter keeps the stock it has handed out: the second call starts
\* from what the first one left
SecondCall_UsesRemainingStock ==
    /\ pc = "done"
    /\ calls = 1
    /\ \E r \in {resolve_conflict(material_id,
                    available_stock
                      - SumAllocated(first_resolution.allocation.fulfilled
                                       \o first_resolution.allocation.partial, 1),
                    sales_orders, bom)} :
           /\ resolution' = r.resolution
           /\ part_demand' = r.part_demand
           /\ served' = r.served
           /\ escaped' = r.escaped
    /\ calls' = 2
    /\ UNCHANGED <<pc, material_id, available_stock, sales_orders, bom,
                   first_resolution, first_bom>>
    /\ UNCHANGED <<batch_vars, llm_vars, agent_vars, service_vars>>

\* the second call, with the arguments of the first
SecondCall ==
    /\ pc = "done"
    /\ calls = 1
    /\ \E r \in {resolve_conflict(material_id, available_stock, sales_orders, bom)} :
           /\ resolution' = r.resolution
           /\ part_demand' = r.part_demand
           /\ served' = r.served
           /\ escaped' = r.escaped
    /\ calls' = 2
    /\ UNCHANGED <<pc, material_id, available_stock, sales_orders, bom,
                   first_resolution, first_bom>>
    /\ UNCHANGED <<batch_vars, llm_vars, agent_vars, service_vars>>

NextRepeat == FirstCall \/ RewriteBom \/ SecondCall

SpecRepeat == InitRepeat /\ [][NextRepeat]_vars

C13_NeverRaises ==
    Done =>
        /\ ~escaped
        /\ part_demand.raised =>
              /\ resolution.allocation = EmptyAllocation
              /\ resolution.delayed_orders = <<>>
              /\ resolution.total_demand = 0
              /\ resolution.material = material_id
              /\ resolution.available_stock = available_stock
              /\ resolution.summary
                    = "Allocation processing error - manual review required"

\* DatasetLoader() raised on the missing bom.csv while orders were pending
C13_Witness ==
    /\ Done
    /\ DatasetLoaderRaises(bom)
    /\ sales_orders # <<>>
    /\ part_demand.raised
    /\ resolution = _create_fallback_resolution(material_id, available_stock)

(***************************************************************************)
(* C14 (part-level demand): the demand of a sales order for the part is    *)
(* qty_per_unit * order_quantity summed over all BOM entries of its        *)
(* model/version that reference the part, and total_demand is the sum of   *)
(* these demands over all sales orders.                                    *)
(***************************************************************************)
\* every BOM entry of the order's model/version that references the part
AllBomMatches(sales_order) ==
    SelectSeq(get_bom_mapping(bom, sales_order.model, sales_order.version),
              LAMBDA e : e.part_id = material_id)

RECURSIVE DemandOverEntries(_, _, _)
DemandOverEntries(order_quantity, entries, k) ==
    IF k > Len(entries) THEN 0
    ELSE order_quantity * int(entries[k].qty_per_unit)
           + DemandOverEntries(order_quantity, entries, k + 1)

DemandOverAllEntries(sales_order) ==
    DemandOverEntries(int(sales_order.quantity), AllBomMatches(sales_order), 1)

RECURSIVE SumDemandOverAllEntries(_)
SumDemandOverAllEntries(i) ==
    IF i > Len(sales_orders) THEN 0
    ELSE DemandOverAllEntries(sales_orders[i]) + SumDemandOverAllEntries(i + 1)

\* every quantity that enters the sum is a number
AllQuantitiesParse ==
    /\ \A i \in 1..Len(sales_orders) : IntParses(sales_orders[i].quantity)
    /\ \A k \in 1..Len(bom.data) : IntParses(bom.data[k].qty_per_unit)

C14_DemandSumsAllBomEntries ==
    (Done /\ AllQuantitiesParse /\ ~DatasetLoaderRaises(bom)) =>
        /\ \A k \in 1..Len(part_demand.value) :
              part_demand.value[k].total_quantity
                 = DemandOverAllEntries(sales_orders[part_demand.value[k].order_id])
        /\ resolution.total_demand = SumDemandOverAllEntries(1)

(***************************************************************************)
(* InventoryBalancer: the constructor builds DatasetLoader(data_dir), and  *)
(* detect_priority_conflicts walks the recommendations: one iteration per  *)
(* material, each inside its own try/except.  The arbiter it calls reads   *)
(* bom.csv of the default directory, which is data_dir or another one.     *)
(***************************************************************************)
MaxRecommendations == 2    \* entries of recommendations
MaxBatchOrders == 2        \* rows of sales_orders.csv

BatchMaterials == {"P300", "P301"}

\* _load_csv returns None for a file that is missing or cannot be read
MissingCsv == [exists |-> FALSE, data |-> <<>>]

EmptyCsv == [exists |-> TRUE, data |-> <<>>]

\* a bom.csv whose P300 entry has a qty_per_unit int() rejects
BomBadP300 ==
    << [model |-> "S1", version |-> "V1", part_id |-> "P300", qty_per_unit |-> "x"],
       [model |-> "S1", version |-> "V1", part_id |-> "P301", qty_per_unit |-> "2"],
       [model |-> "S2", version |-> "V1", part_id |-> "P301", qty_per_unit |-> "1"] >>

BatchOrderFields ==
    {[model |-> "S1", quantity |-> "2", order_type |-> "webshop"],
     [model |-> "S1", quantity |-> "1", order_type |-> "fleet_framework"],
     [model |-> "S1", quantity |-> "x", order_type |-> "webshop"],
     [model |-> "S2", quantity |-> "1", order_type |-> "webshop"]}

SalesFiles ==
    {MissingCsv}
    \cup {[exists |-> TRUE,
           data |-> [i \in 1..Len(f) |-> SalesOrderRow(i, f[i])]] :
             f \in UNION {[1..n -> BatchOrderFields] : n \in 0..MaxBatchOrders}}

\* stock_levels.csv; _load_csv has cast quantity_available to int
StockFiles ==
    {MissingCsv, EmptyCsv}
    \cup {[exists |-> TRUE,
           data |-> << [part_id |-> "P300", quantity_available |-> q[1]],
                       [part_id |-> "P301", quantity_available |-> q[2]] >>] :
             q \in {0, MaxStock} \X {0, MaxStock}}

BatchBomFiles ==
    {MissingCsv,
     [exists |-> TRUE, data |-> BomSample],
     [exists |-> TRUE, data |-> BomBadP300]}

\* DatasetLoader.__init__ logs len() of four of the datasets it loaded;
\* len(None) raises TypeError
DatasetLoaderInitRaises(files) ==
    \/ ~files.sales_orders.exists
    \/ ~files.material_master.exists
    \/ ~files.stock_levels.exists
    \/ ~files.bom.exists

get_current_stock(stock_levels, material) ==
    IF \E k \in 1..Len(stock_levels.data) : stock_levels.data[k].part_id = material
    THEN LET k == CHOOSE k \in 1..Len(stock_levels.data) :
                    /\ stock_levels.data[k].part_id = material
                    /\ \A j \in 1..(k - 1) : stock_levels.data[j].part_id # material
         IN  [found |-> TRUE,
              quantity_available |-> stock_levels.data[k].quantity_available]
    ELSE [found |-> FALSE, quantity_available |-> 0]

\* the part ids get_all_materials returns (it returns them sorted)
get_all_materials(stock_levels) ==
    {stock_levels.data[k].part_id : k \in 1..Len(stock_levels.data)}

\* one iteration of the loop of detect_priority_conflicts: raised when the
\* except clause was entered, found = the resolution appended, if any
DetectIteration(material) ==
    LET stock_info == get_current_stock(csv.stock_levels, material)
        current_stock == IF stock_info.found THEN stock_info.quantity_available
                         ELSE 0
        all_sales_data == csv.sales_orders.data
    IN  IF all_sales_data = <<>>
        THEN [raised |-> FALSE, found |-> <<>>]
        ELSE LET pre == PartDemandLoop(material, all_sales_data, csv.bom, 1, <<>>)
             IN  IF pre.raised
                 THEN [raised |-> TRUE, found |-> <<>>]
                 ELSE IF pre.value # <<>>
                         /\ SumTotalQuantity(pre.value, 1) > current_stock
                 THEN [raised |-> FALSE,
                       found |-> << resolve_conflict(material, current_stock,
                                        all_sales_data, bom).resolution >>]
                 ELSE [raised |-> FALSE, found |-> <<>>]

\* no call of resolve_conflict is followed on its own
ArbiterIdle ==
    /\ material_id = ""
    /\ available_stock = 0
    /\ sales_orders = <<>>
    /\ resolution = None
    /\ part_demand = [raised |-> FALSE, value |-> <<>>]
    /\ served = <<>>
    /\ escaped = FALSE

InitBatch ==
    /\ pc = "ready"
    /\ csv \in [sales_orders : SalesFiles, stock_levels : StockFiles,
                material_master : {MissingCsv, EmptyCsv}, bom : BatchBomFiles]
    /\ bom \in {csv.bom, BomMissing}
    /\ recommendations \in UNION {[1..n -> BatchMaterials] : n \in 0..MaxRecommendations}
    /\ rec_index = 1
    /\ conflicts = <<>>
    /\ errors = <<>>
    /\ ArbiterIdle /\ RepeatIdle /\ LLMIdle /\ AgentIdle /\ ServiceIdle

\* InventoryBalancer.__init__
InventoryBalancerInit ==
    /\ pc = "ready"
    /\ pc' = IF DatasetLoaderInitRaises(csv) THEN "raised" ELSE "detecting"
    /\ UNCHANGED <<material_id, available_stock, sales_orders, bom, resolution,
                   part_demand, served, escaped>>
    /\ UNCHANGED <<repeat_vars, batch_vars, llm_vars, agent_vars, service_vars>>

\* the loop body of detect_priority_conflicts for the next recommendation
DetectStep ==
    /\ pc = "detecting"
    /\ rec_index <= Len(recommendations)
    /\ \E r \in {DetectIteration(recommendations[rec_index])} :
          /\ conflicts' = conflicts \o r.found
          /\ errors' = IF r.raised
                       THEN Append(errors, recommendations[rec_index])
                       ELSE errors
    /\ rec_index' = rec_index + 1
    /\ UNCHANGED <<arbiter_vars, repeat_vars, csv, recommendations>>
    /\ UNCHANGED <<llm_vars, agent_vars, service_vars>>

\* detect_priority_conflicts returns the list
DetectReturn ==
    /\ pc = "detecting"
    /\ rec_index > Len(recommendations)
    /\ pc' = "returned"
    /\ UNCHANGED <<material_id, available_stock, sales_orders, bom, resolution,
                   part_demand, served, escaped>>
    /\ UNCHANGED <<repeat_vars, batch_vars, llm_vars, agent_vars, service_vars>>

NextBatch == InventoryBalancerInit \/ DetectStep \/ DetectReturn

SpecBatch == InitBatch /\ [][NextBatch]_vars

(***************************************************************************)
(* C15 (per-material errors): an allocation or arithmetic error while one  *)
(* material is processed is caught for that material alone, the batch goes *)
(* on with the remaining materials, and the failed material has an         *)
(* explicit "manual review required" result in the batch output.           *)
(***************************************************************************)
C15_FailedMaterialReported ==
    (pc = "returned") =>
        \A k \in 1..Len(errors) :
            \E j \in 1..Len(conflicts) :
                /\ conflicts[j].material = errors[k]
                /\ conflicts[j].summary
                      = "Allocation processing error - manual review required"

(***************************************************************************)
(* C29 (genuine conflicts): every resolution detect_priority_conflicts     *)
(* returns is a genuine conflict: its total_demand is greater than its     *)
(* available_stock, so at least one of its entries is partial or delayed.  *)
(***************************************************************************)
C29_EveryResolutionIsConflict ==
    \A j \in 1..Len(conflicts) :
       /\ conflicts[j].total_demand > conflicts[j].available_stock
       /\ Len(conflicts[j].allocation.partial)
             + Len(conflicts[j].allocation.delayed) > 0

(***************************************************************************)
(* C20 (missing CSV): a missing or malformed CSV file is an empty dataset: *)
(* constructing DatasetLoader never raises, and its accessors return the   *)
(* empty or default value for the dataset that is missing.                 *)
(***************************************************************************)
C20_MissingCsvIsEmptyDataset ==
    /\ pc # "raised"
    /\ (pc \in {"detecting", "returned"} /\ ~csv.bom.exists)
          => get_bom_mapping(csv.bom, "S1", "V1") = <<>>
    /\ (pc \in {"detecting", "returned"} /\ ~csv.stock_levels.exists)
          => /\ get_all_materials(csv.stock_levels) = {}
             /\ ~get_current_stock(csv.stock_levels, "P300").found

(***************************************************************************)
(* The LLM boundary: OllamaLLM._request_with_retry under generate_text and *)
(* OllamaLLM.generate_json, attempt_json_repair, and should_trigger_alert  *)
(* with _safe_default_decision.  The server is outside the program: every  *)
(* HTTP request ends in one of the requests exceptions or in a 200 answer  *)
(* carrying some text.                                                     *)
(***************************************************************************)
\* _request_with_retry: the waits, one attempt for each
backoffs_FourAttempts == <<1, 2, 4, 8>>

backoffs == <<1, 2, 4>>

\* attempt_json_repair: for attempt in range(2); with one pass more
RepairAttempts_Three == 2 + 1

RepairAttempts == 2

\* requests.exceptions.RequestException, as the calls can raise it
RequestErrors == {"ConnectionError", "Timeout", "HTTPError"}

TextAlert == "{\"trigger_alert\": true, \"urgency\": \"high\", \"reason\": \"late\"}"

TextCalm == "{\"trigger_alert\": false, \"urgency\": \"low\", \"reason\": \"buffer\"}"

TextNullReason == "{\"trigger_alert\": true, \"urgency\": \"high\", \"reason\": null}"

\* TextAlert inside a markdown code block; <fence> stands for the three
\* backquote characters that open and close the block
TextFenced == "<fence>json {\"trigger_alert\": true, \"urgency\": \"high\", \"reason\": \"late\"} <fence>"

TextAnswer == "{\"answer\": 42}"

TextEmptyObject == "{}"

TextPadded == " {} "

TextInvalid == "INVALID JSON"

\* what the model may answer
Texts == {TextAlert, TextCalm, TextNullReason, TextFenced, TextAnswer,
          TextEmptyObject, TextPadded, TextInvalid}

PostOutcomes == RequestErrors \cup Texts

\* str.strip()
strip(text) == IF text = TextPadded THEN TextEmptyObject ELSE text

\* clean_json_text: strip, then take the inside of a markdown code block
clean_json_text(text) ==
    IF strip(text) = TextFenced THEN TextAlert ELSE strip(text)

\* a parsed JSON object, by the keys the program looks at; Absent for a
\* key the object does not have, "null" for a JSON null
Absent == "absent"

JsonObject(trigger_alert, urgency, reason, answer) ==
    [trigger_alert |-> trigger_alert, urgency |-> urgency, reason |-> reason,
     answer |-> answer]

EmptyObject == JsonObject(Absent, Absent, Absent, Absent)

\* json.loads: ok = FALSE stands for json.JSONDecodeError
json_loads(text) ==
    CASE text = TextAlert ->
            [ok |-> TRUE, value |-> JsonObject("true", "high", "late", Absent)]
      [] text = TextCalm ->
            [ok |-> TRUE, value |-> JsonObject("false", "low", "buffer", Absent)]
      [] text = TextNullReason ->
            [ok |-> TRUE, value |-> JsonObject("true", "high", "null", Absent)]
      [] text = TextAnswer ->
            [ok |-> TRUE, value |-> JsonObject(Absent, Absent, Absent, "42")]
      [] text \in {TextEmptyObject, TextPadded} ->
            [ok |-> TRUE, value |-> EmptyObject]
      [] OTHER -> [ok |-> FALSE, value |-> EmptyObject]

\* normalize_json_output: a null under a known string key becomes ""
normalize_json_output(data) ==
    IF data.reason = "null" THEN [data EXCEPT !.reason = ""] ELSE data

\* "if repaired:" - a dict is true when it has a key
Truthy(data) == data # EmptyObject

_validate_decision(decision) ==
    /\ decision.trigger_alert # Absent
    /\ decision.urgency # Absent
    /\ decision.reason # Absent
    /\ decision.trigger_alert \in {"true", "false"}
    /\ decision.reason # "null"
    /\ decision.urgency \in {"low", "medium", "high", "critical"}

\* the AlertDecision built from the answer of the model
AlertDecision(decision_data) ==
    [trigger_alert |-> decision_data.trigger_alert = "true",
     urgency |-> decision_data.urgency,
     should_escalate |-> FALSE,
     error |-> "",
     is_fallback |-> FALSE]

\* the conservative defaults at the end of _safe_default_decision
ConservativeDefault(event, error) ==
    LET urgency == IF event.po_priority = "critical" THEN "high"
                   ELSE IF event.change_type = "cancellation" THEN "high"
                   ELSE "medium"
    IN  [trigger_alert |-> TRUE,
         urgency |-> urgency,
         should_escalate |-> urgency \in {"high", "critical"},
         error |-> error,
         is_fallback |-> TRUE]

\* the value of llm_result: a text, a JSON object or an AlertDecision that
\* was returned, or the exception that was raised
NoDecision ==
    [trigger_alert |-> FALSE, urgency |-> "", should_escalate |-> FALSE,
     error |-> "", is_fallback |-> FALSE]

NoResult ==
    [raised |-> FALSE, error |-> "", text |-> "", data |-> EmptyObject,
     decision |-> NoDecision]

TextResult(text) == [NoResult EXCEPT !.text = text]

DataResult(data) == [NoResult EXCEPT !.data = data]

DecisionResult(decision) == [NoResult EXCEPT !.decision = decision]

RaisedResult(error) == [NoResult EXCEPT !.raised = TRUE, !.error = error]

\* without the try/except around the simplified retry
_safe_default_decision_NoExcept(event, error, outcome) ==
    IF outcome \in RequestErrors THEN RaisedResult(outcome)
    ELSE RaisedResult("TypeError")

\* _safe_default_decision, given how its one simplified request ended: a
\* request exception is caught; an answer is handed to
\* _parse_alert_decision with one argument instead of three, the TypeError
\* is caught as well; both ways end in the conservative defaults
_safe_default_decision(event, error, outcome) ==
    DecisionResult(ConservativeDefault(event, error))

\* the error text the except clauses of should_trigger_alert pass on
AlertErrorText(error) ==
    CASE error = "ConnectionError" -> "Cannot reach Ollama"
      [] error = "Timeout" -> "Ollama timeout"
      [] OTHER -> error

ChangeEvents ==
    [change_type : {"delay", "cancellation"}, po_priority : {"normal", "critical"}]

InitLLM ==
    /\ op \in {"generate_text", "generate_json", "should_trigger_alert"}
    /\ llm_pc = IF op = "should_trigger_alert" THEN "primary" ELSE "request"
    /\ change_event \in IF op = "should_trigger_alert" THEN ChangeEvents
                        ELSE {[change_type |-> "delay", po_priority |-> "normal"]}
    /\ attempt = 0
    /\ waits = <<>>
    /\ posts = <<>>
    /\ response = ""
    /\ repair_attempt = 0
    /\ llm_result = NoResult
    /\ llm_error = ""
    /\ pc = "idle"
    /\ bom = BomMissing
    /\ ArbiterIdle /\ RepeatIdle /\ BatchIdle /\ AgentIdle /\ ServiceIdle

\* one pass of the loop of _request_with_retry: requests.post, then
\* either the answer is returned or the exception is kept for the sleep
RequestPost ==
    /\ op \in {"generate_text", "generate_json"}
    /\ llm_pc = "request"
    /\ \E o \in PostOutcomes :
          /\ posts' = Append(posts, [to |-> "generate", outcome |-> o])
          /\ IF o \in RequestErrors
             THEN /\ llm_pc' = "backoff"
                  /\ UNCHANGED <<response, llm_result>>
             ELSE /\ response' = o
                  /\ IF op = "generate_text"
                     THEN /\ llm_pc' = "returned"
                          /\ llm_result' = TextResult(strip(o))
                     ELSE /\ llm_pc' = "parse"
                          /\ UNCHANGED llm_result
    /\ UNCHANGED <<op, attempt, waits, repair_attempt, llm_error, change_event>>
    /\ UNCHANGED <<arbiter_vars, repeat_vars, batch_vars, agent_vars, service_vars>>

\* time.sleep(backoff) after a failed attempt, then the next pass if any
Backoff ==
    /\ llm_pc = "backoff"
    /\ waits' = Append(waits, backoffs[attempt + 1])
    /\ attempt' = attempt + 1
    /\ llm_pc' = IF attempt + 1 < Len(backoffs) THEN "request" ELSE "exhausted"
    /\ UNCHANGED <<op, posts, response, repair_attempt, llm_result, llm_error,
                   change_event>>
    /\ UNCHANGED <<arbiter_vars, repeat_vars, batch_vars, agent_vars, service_vars>>

\* the loop is over: OllamaConnectionError.  generate_text catches it and
\* returns ""; OllamaLLM.generate_json lets it pass to its caller
CircuitBreaker ==
    /\ llm_pc = "exhausted"
    /\ IF op = "generate_text"
       THEN /\ llm_pc' = "returned"
            /\ llm_result' = TextResult("")
       ELSE /\ llm_pc' = "raised"
            /\ llm_result' = RaisedResult("OllamaConnectionError")
    /\ UNCHANGED <<op, attempt, waits, posts, response, repair_attempt,
                   llm_error, change_event>>
    /\ UNCHANGED <<arbiter_vars, repeat_vars, batch_vars, agent_vars, service_vars>>

\* OllamaLLM.generate_json after generate: clean, parse, normalize
ParseJson ==
    /\ op = "generate_json"
    /\ llm_pc = "parse"
    /\ \E parsed \in {json_loads(clean_json_text(response))} :
          IF parsed.ok
          THEN /\ llm_pc' = "returned"
               /\ llm_result' = DataResult(normalize_json_output(parsed.value))
          ELSE /\ llm_pc' = "repair"
               /\ UNCHANGED llm_result
    /\ UNCHANGED <<op, attempt, waits, posts, response, repair_attempt,
                   llm_error, change_event>>
    /\ UNCHANGED <<arbiter_vars, repeat_vars, batch_vars, agent_vars, service_vars>>

\* what the caller of attempt_json_repair does with what it returned
\* (it returns {} when the repair failed, never None)
AfterRepair(repaired) ==
    IF op = "generate_json"
    THEN /\ llm_pc' = "returned"
         /\ llm_result' = DataResult(IF Truthy(repaired) THEN repaired
                                     ELSE EmptyObject)
         /\ UNCHANGED llm_error
    ELSE IF _validate_decision(repaired)
    THEN /\ llm_pc' = "returned"
         /\ llm_result' = DecisionResult(AlertDecision(repaired))
         /\ UNCHANGED llm_error
    ELSE /\ llm_pc' = "fallback"
         /\ llm_error' = "Invalid response structure from Ollama"
         /\ UNCHANGED llm_result

\* one pass of the loop of attempt_json_repair: a single request, no retry
RepairPost ==
    /\ llm_pc = "repair"
    /\ repair_attempt < RepairAttempts
    /\ repair_attempt' = repair_attempt + 1
    /\ \E o \in PostOutcomes :
          /\ posts' = Append(posts, [to |-> "repair", outcome |-> o])
          /\ IF o \in RequestErrors
             THEN AfterRepair(EmptyObject)
             ELSE \E parsed \in {json_loads(clean_json_text(o))} :
                     IF parsed.ok
                     THEN AfterRepair(normalize_json_output(parsed.value))
                     ELSE IF repair_attempt + 1 < RepairAttempts
                     THEN UNCHANGED <<llm_pc, llm_result, llm_error>>
                     ELSE AfterRepair(EmptyObject)
    /\ UNCHANGED <<op, attempt, waits, response, change_event>>
    /\ UNCHANGED <<arbiter_vars, repeat_vars, batch_vars, agent_vars, service_vars>>

\* should_trigger_alert: _call_ollama_for_decision, a single request
AlertPrimary ==
    /\ op = "should_trigger_alert"
    /\ llm_pc = "primary"
    /\ \E o \in PostOutcomes :
          /\ posts' = Append(posts, [to |-> "decision", outcome |-> o])
          /\ IF o \in RequestErrors
             THEN /\ llm_pc' = "fallback"
                  /\ llm_error' = AlertErrorText(o)
                  /\ UNCHANGED response
             ELSE /\ llm_pc' = "parse_decision"
                  /\ response' = strip(o)
                  /\ UNCHANGED llm_error
    /\ UNCHANGED <<op, attempt, waits, repair_attempt, llm_result, change_event>>
    /\ UNCHANGED <<arbiter_vars, repeat_vars, batch_vars, agent_vars, service_vars>>

\* should_trigger_alert: _parse_alert_decision and _validate_decision
AlertParse ==
    /\ op = "should_trigger_alert"
    /\ llm_pc = "parse_decision"
    /\ \E parsed \in {json_loads(clean_json_text(response))} :
          IF ~parsed.ok
          THEN /\ llm_pc' = "repair"
               /\ UNCHANGED <<llm_result, llm_error>>
          ELSE IF _validate_decision(parsed.value)
          THEN /\ llm_pc' = "returned"
               /\ llm_result' = DecisionResult(AlertDecision(parsed.value))
               /\ UNCHANGED llm_error
          ELSE /\ llm_pc' = "fallback"
               /\ llm_error' = "Invalid response structure from Ollama"
               /\ UNCHANGED llm_result
    /\ UNCHANGED <<op, attempt, waits, posts, response, repair_attempt,
                   change_event>>
    /\ UNCHANGED <<arbiter_vars, repeat_vars, batch_vars, agent_vars, service_vars>>

\* _safe_default_decision: the simplified request and what follows it
AlertFallback ==
    /\ op = "should_trigger_alert"
    /\ llm_pc = "fallback"
    /\ \E o \in PostOutcomes :
          /\ posts' = Append(posts, [to |-> "fallback", outcome |-> o])
          /\ \E r \in {_safe_default_decision(change_event, llm_error, o)} :
                /\ llm_result' = r
                /\ llm_pc' = IF r.raised THEN "raised" ELSE "returned"
    /\ UNCHANGED <<op, attempt, waits, response, repair_attempt, llm_error,
                   change_event>>
    /\ UNCHANGED <<arbiter_vars, repeat_vars, batch_vars, agent_vars, service_vars>>

NextLLM ==
    \/ RequestPost
    \/ Backoff
    \/ CircuitBreaker
    \/ ParseJson
    \/ RepairPost
    \/ AlertPrimary
    \/ AlertParse
    \/ AlertFallback

SpecLLM == InitLLM /\ [][NextLLM]_vars

\* the entry point is a sequential program: it takes its next step; every
\* request carries a timeout and every sleep is finite
SpecLLMFair == SpecLLM /\ WF_vars(NextLLM)

\* the requests made so far to one destination
PostsTo(to) == SelectSeq(posts, LAMBDA p : p.to = to)

\* the requests to one destination that did not give a text json.loads takes
FailedToParse(p) ==
    \/ p.outcome \in RequestErrors
    \/ ~json_loads(clean_json_text(p.outcome)).ok

(***************************************************************************)
(* C17 (bounded retry): an LLM HTTP request is attempted at most 3 times,  *)
(* with waits of 1s, 2s and 4s after the successive failures; after the    *)
(* last failure the client gives up, so every call terminates, and         *)
(* generate_text falls back to the default answer "".                      *)
(***************************************************************************)
C17_RetryBounded ==
    /\ Len(PostsTo("generate")) <= 3
    /\ Len(waits) <= 3
    /\ \A i \in 1..Len(waits) : waits[i] = <<1, 2, 4>>[i]
    /\ \A i \in 1..Len(waits) : PostsTo("generate")[i].outcome \in RequestErrors
    /\ (op = "generate_text") => llm_pc # "raised"
    /\ (op = "generate_text" /\ llm_pc = "returned" /\ Len(waits) = 3)
          => llm_result = TextResult("")

C17_BoundedRetryTerminates ==
    /\ []C17_RetryBounded
    /\ <>(llm_pc \in {"returned", "raised"})

\* three attempts failed, the three waits were slept, "" came back
C17_Witness ==
    /\ op = "generate_text"
    /\ llm_pc = "returned"
    /\ Len(PostsTo("generate")) = 3
    /\ waits = <<1, 2, 4>>
    /\ llm_result = TextResult("")

(***************************************************************************)
(* C18 (bounded JSON repair): when the output of the model is not valid    *)
(* JSON, at most 2 repair requests are made; when every repair attempt     *)
(* fails to parse as well, generate_json returns the empty object and      *)
(* does not raise.                                                         *)
(***************************************************************************)
C18_BoundedRepair ==
    /\ Len(PostsTo("repair")) <= 2
    /\ (op = "generate_json" /\ response # ""
          /\ ~json_loads(clean_json_text(response)).ok) =>
          /\ llm_pc # "raised"
          /\ (llm_pc = "returned"
                /\ \A k \in 1..Len(PostsTo("repair")) :
                       FailedToParse(PostsTo("repair")[k]))
                => llm_result = DataResult(EmptyObject)

\* the answer and both repairs were not JSON; {} came back
C18_Witness ==
    /\ op = "generate_json"
    /\ llm_pc = "returned"
    /\ response = TextInvalid
    /\ Len(PostsTo("repair")) = 2
    /\ \A k \in 1..2 : PostsTo("repair")[k].outcome \in {TextInvalid, TextFenced}
    /\ PostsTo("repair")[2].outcome = TextInvalid
    /\ llm_result = DataResult(EmptyObject)

(***************************************************************************)
(* C19 (alert fallback): should_trigger_alert never propagates an LLM      *)
(* failure: when the model cannot be reached or times out, the failure is  *)
(* caught, one simplified retry is made, and when that fails too the       *)
(* hardcoded conservative decision (trigger_alert = true, is_fallback =    *)
(* true) is returned.                                                      *)
(***************************************************************************)
C19_AlertNeverPropagates ==
    (op = "should_trigger_alert") =>
        /\ llm_pc # "raised"
        /\ (llm_pc = "returned" /\ posts[1].outcome \in RequestErrors) =>
              /\ ~llm_result.raised
              /\ Len(posts) = 2
              /\ posts[2].to = "fallback"
              /\ (posts[2].outcome \in RequestErrors) =>
                    /\ llm_result.decision.trigger_alert
                    /\ llm_result.decision.is_fallback

\* the model timed out, the simplified retry could not connect
C19_Witness ==
    /\ op = "should_trigger_alert"
    /\ llm_pc = "returned"
    /\ Len(posts) = 2
    /\ posts[1] = [to |-> "decision", outcome |-> "Timeout"]
    /\ posts[2] = [to |-> "fallback", outcome |-> "ConnectionError"]
    /\ llm_result.decision.trigger_alert
    /\ llm_result.decision.is_fallback
    /\ llm_result.decision.error = "Ollama timeout"

(***************************************************************************)
(* Operations running at the same time on one HugoAgent and one            *)
(* ollama_llm module: process_emails on the pool thread of                 *)
(* process_emails_async, ERPMatcher.update_po_status and generate_text.    *)
(* The threads share ERPMatcher.purchase_orders and the module-level       *)
(* _client; neither is guarded by a lock.  A step is one read or write of  *)
(* the shared state together with the local work around it.                *)
(***************************************************************************)
MaxEmails == 2

Threads == {"pool", "caller"}

AgentOps == {"process_emails", "update_po_status", "generate_text"}

\* MOCK_ERP_DATA, by the fields the matching reads
MockOrders ==
    << [po_number |-> "PO-2024-0892", supplier_email |-> "logistics@acme-supplies.com",
        status |-> "open", priority |-> "high"],
       [po_number |-> "GP-78234", supplier_email |-> "shipping@globalparts.io",
        status |-> "open", priority |-> "normal"],
       [po_number |-> "TC-2024-445", supplier_email |-> "orders@techcomponents.com",
        status |-> "open", priority |-> "critical"],
       [po_number |-> "PO-2024-0755", supplier_email |-> "logistics@acme-supplies.com",
        status |-> "complete", priority |-> "normal"],
       [po_number |-> "PO-2024-0999", supplier_email |-> "orders@pacificlog.com",
        status |-> "open", priority |-> "low"] >>

\* ERPMatcher.purchase_orders after _load_data: a PO that fails to parse is
\* skipped.  With models/schemas.py every PO of MOCK_ERP_DATA parses; with
\* Backend/models/schemas.py, whose PurchaseOrder requires material_id and
\* quantity, none does.  Which of the two "models" packages is imported
\* depends on sys.path
LoadedOrders == {MockOrders, <<>>}

\* the senders of the emails in the inbox
Senders ==
    {"logistics@acme-supplies.com", " Logistics@ACME-Supplies.com",
     "shipping@globalparts.io", "nobody@example.com"}

\* the PO numbers and the status values update_po_status is called with
PoNumbers == {"PO-2024-0892", "po-2024-0755", "PO20240892", "GP-78234", "PO-0000"}

NewStatuses == {"open", "complete", "cancelled"}

\* email.lower().strip()
lower_strip(email) ==
    IF email = " Logistics@ACME-Supplies.com" THEN "logistics@acme-supplies.com"
    ELSE email

\* po_number.strip().upper()
strip_upper(po_number) ==
    IF po_number = "po-2024-0755" THEN "PO-2024-0755" ELSE po_number

\* .replace("-", "").replace("#", "") on an upper-case PO number
without_dashes(po_number) ==
    CASE po_number = "PO-2024-0892" -> "PO20240892"
      [] po_number = "PO-2024-0755" -> "PO20240755"
      [] po_number = "GP-78234" -> "GP78234"
      [] po_number = "TC-2024-445" -> "TC2024445"
      [] po_number = "PO-2024-0999" -> "PO20240999"
      [] po_number = "PO-0000" -> "PO0000"
      [] OTHER -> po_number

\* find_by_po_number: the index of the first PO with that number, 0 for None
find_by_po_number(orders, po_number) ==
    LET hits == {i \in 1..Len(orders) :
                    \/ strip_upper(orders[i].po_number) = strip_upper(po_number)
                    \/ without_dashes(strip_upper(orders[i].po_number))
                          = without_dashes(strip_upper(po_number))}
    IN  IF hits = {} THEN 0 ELSE CHOOSE i \in hits : \A j \in hits : i <= j

\* find_by_supplier_email: the open purchase orders of that supplier
find_by_supplier_email(orders, email) ==
    SelectSeq(orders, LAMBDA po : /\ po.supplier_email = lower_strip(email)
                                  /\ po.status = "open")

\* the sort key of the fallback of match_delivery_change
po_priority_key(priority) ==
    CASE priority = "critical" -> 0
      [] priority = "high" -> 1
      [] priority = "normal" -> 2
      [] priority = "low" -> 3
      [] OTHER -> 2

\* match_delivery_change for the temporary change of _process_single_email,
\* which has no PO reference, no affected items and no original date: the
\* only open PO of the sender, or the first of highest priority (the sort
\* is stable); None when the sender has no open PO
match_delivery_change(orders, sender_email) ==
    LET supplier_pos == find_by_supplier_email(orders, sender_email)
        best == CHOOSE i \in 1..Len(supplier_pos) :
                   \A j \in 1..Len(supplier_pos) :
                      \/ po_priority_key(supplier_pos[i].priority)
                            < po_priority_key(supplier_pos[j].priority)
                      \/ /\ po_priority_key(supplier_pos[i].priority)
                               = po_priority_key(supplier_pos[j].priority)
                         /\ i <= j
    IN  IF supplier_pos = <<>> THEN None ELSE supplier_pos[best].po_number

\* update_po_status: po.status = new_status on the PO that was found
update_po_status(orders, po_number, new_status) ==
    LET i == find_by_po_number(orders, po_number)
    IN  IF i = 0 THEN orders
        ELSE [orders EXCEPT ![i] = [@ EXCEPT !.status = new_status]]

\* the module-level _client: None, or the OllamaLLM generate_text built
\* from OLLAMA_MODEL and OLLAMA_BASE_URL
NoClient == [built |-> FALSE, model |-> "", base_url |-> "", instance |-> 0]

OllamaLLM(instance) ==
    [built |-> TRUE, model |-> "gemma:2b",
     base_url |-> "http://localhost:11434", instance |-> instance]

\* where each operation starts
StartOf(operation) ==
    CASE operation = "process_emails" -> "match"
      [] operation = "update_po_status" -> "update"
      [] operation = "generate_text" -> "check"

Uses(operation) == \E t \in Threads : thread_op[t] = operation

InitAgent ==
    /\ thread_op \in [Threads -> AgentOps]
    /\ thread_pc = [t \in Threads |-> StartOf(thread_op[t])]
    /\ purchase_orders \in LoadedOrders
    /\ _client = NoClient
    /\ clients_built = 0
    /\ emails \in IF Uses("process_emails")
                  THEN UNION {[1..n -> Senders] : n \in 1..MaxEmails}
                  ELSE {<<>>}
    /\ update_args \in IF Uses("update_po_status")
                       THEN [po_number : PoNumbers, new_status : NewStatuses]
                       ELSE {[po_number |-> "PO-0000", new_status |-> "open"]}
    /\ email_index = [t \in Threads |-> 1]
    /\ matched = [t \in Threads |-> <<>>]
    /\ saw_none = [t \in Threads |-> FALSE]
    /\ client_used = [t \in Threads |-> NoClient]
    /\ pc = "idle"
    /\ bom = BomMissing
    /\ ArbiterIdle /\ RepeatIdle /\ BatchIdle /\ LLMIdle /\ ServiceIdle

\* _process_single_email, step 1: the email is matched against the
\* purchase orders as they are now
MatchEmail(t) ==
    /\ thread_op[t] = "process_emails"
    /\ thread_pc[t] = "match"
    /\ email_index[t] <= Len(emails)
    /\ matched' = [matched EXCEPT ![t] =
          Append(@, match_delivery_change(purchase_orders, emails[email_index[t]]))]
    /\ email_index' = [email_index EXCEPT ![t] = @ + 1]
    /\ UNCHANGED <<_client, purchase_orders, thread_op, thread_pc, emails,
                   saw_none, client_used, clients_built, update_args>>
    /\ UNCHANGED <<arbiter_vars, repeat_vars, batch_vars, llm_vars, service_vars>>

\* process_emails: the loop over the emails is over
ProcessEmailsReturn(t) ==
    /\ thread_op[t] = "process_emails"
    /\ thread_pc[t] = "match"
    /\ email_index[t] > Len(emails)
    /\ thread_pc' = [thread_pc EXCEPT ![t] = "done"]
    /\ UNCHANGED <<_client, purchase_orders, thread_op, emails, email_index,
                   matched, saw_none, client_used, clients_built, update_args>>
    /\ UNCHANGED <<arbiter_vars, repeat_vars, batch_vars, llm_vars, service_vars>>

\* ERPMatcher.update_po_status on the ERPMatcher of the agent
UpdatePoStatus(t) ==
    /\ thread_op[t] = "update_po_status"
    /\ thread_pc[t] = "update"
    /\ purchase_orders' = update_po_status(purchase_orders, update_args.po_number,
                                           update_args.new_status)
    /\ thread_pc' = [thread_pc EXCEPT ![t] = "done"]
    /\ UNCHANGED <<_client, thread_op, emails, email_index, matched, saw_none,
                   client_used, clients_built, update_args>>
    /\ UNCHANGED <<arbiter_vars, repeat_vars, batch_vars, llm_vars, service_vars>>

\* generate_text: if _client is None
CheckClient(t) ==
    /\ thread_op[t] = "generate_text"
    /\ thread_pc[t] = "check"
    /\ saw_none' = [saw_none EXCEPT ![t] = ~_client.built]
    /\ thread_pc' = [thread_pc EXCEPT ![t] = IF _client.built THEN "call"
                                             ELSE "create"]
    /\ UNCHANGED <<_client, purchase_orders, thread_op, emails, email_index,
                   matched, client_used, clients_built, update_args>>
    /\ UNCHANGED <<arbiter_vars, repeat_vars, batch_vars, llm_vars, service_vars>>

\* generate_text: _client = OllamaLLM(model=model, base_url=base_url)
CreateClient(t) ==
    /\ thread_op[t] = "generate_text"
    /\ thread_pc[t] = "create"
    /\ clients_built' = clients_built + 1
    /\ _client' = OllamaLLM(clients_built + 1)
    /\ thread_pc' = [thread_pc EXCEPT ![t] = "call"]
    /\ UNCHANGED <<purchase_orders, thread_op, emails, email_index, matched,
                   saw_none, client_used, update_args>>
    /\ UNCHANGED <<arbiter_vars, repeat_vars, batch_vars, llm_vars, service_vars>>

\* generate_text: _client.generate(prompt), on the client the global
\* names at that moment
CallClient(t) ==
    /\ thread_op[t] = "generate_text"
    /\ thread_pc[t] = "call"
    /\ client_used' = [client_used EXCEPT ![t] = _client]
    /\ thread_pc' = [thread_pc EXCEPT ![t] = "done"]
    /\ UNCHANGED <<_client, purchase_orders, thread_op, emails, email_index,
                   matched, saw_none, clients_built, update_args>>
    /\ UNCHANGED <<arbiter_vars, repeat_vars, batch_vars, llm_vars, service_vars>>

NextAgent ==
    \E t \in Threads :
       \/ MatchEmail(t)
       \/ ProcessEmailsReturn(t)
       \/ UpdatePoStatus(t)
       \/ CheckClient(t)
       \/ CreateClient(t)
       \/ CallClient(t)

SpecAgent == InitAgent /\ [][NextAgent]_vars

\* the purchase orders as they were loaded: update_po_status changes the
\* status of a purchase order and never the number of them
OrdersAtStart == IF purchase_orders = <<>> THEN <<>> ELSE MockOrders

\* what process_emails matches when nothing else runs, on given orders
ProcessEmailsAlone(orders) ==
    [i \in 1..Len(emails) |-> match_delivery_change(orders, emails[i])]

\* the server a client talks to and the model it asks for: all that the
\* answer to a prompt depends on
ClientConfig(client) == [model |-> client.model, base_url |-> client.base_url]

(***************************************************************************)
(* C16 (no shared mutable state): operations that run at the same time     *)
(* each compute the result they compute when run alone, be it before or    *)
(* after the other operation: process_emails matches every email as it     *)
(* does on the purchase orders untouched or on the purchase orders after   *)
(* the whole update, and generate_text asks the client it would have       *)
(* built itself.                                                           *)
(***************************************************************************)
C16_ConcurrentAsAlone ==
    \A t \in Threads :
       thread_pc[t] = "done" =>
          /\ (thread_op[t] = "process_emails") =>
                \/ matched[t] = ProcessEmailsAlone(OrdersAtStart)
                \/ /\ Uses("update_po_status")
                   /\ matched[t] = ProcessEmailsAlone(
                         update_po_status(OrdersAtStart, update_args.po_number,
                                          update_args.new_status))
          /\ (thread_op[t] = "generate_text") =>
                ClientConfig(client_used[t]) = ClientConfig(OllamaLLM(1))

(***************************************************************************)
(* The deterministic scoring functions: compute_risk_score of              *)
(* deterministic_logic.py, and calculate_risk_score and get_alert_severity *)
(* of main.py.  Scores and confidences are counted in hundredths: every    *)
(* weight of the code is a multiple of 0.05, and the comparisons of the    *)
(* floating-point sums with 0.4 and 0.7 agree with the comparisons of the  *)
(* hundredths for every input below.                                       *)
(***************************************************************************)
\* Optional[int]: None, or an integer
NoneInt == [none |-> TRUE, value |-> 0]

SomeInt(value) == [none |-> FALSE, value |-> value]

OptionalInt(values) == {NoneInt} \cup {SomeInt(v) : v \in values}

\* the Signal the LLM extracted
Signals ==
    [delay_mentioned : BOOLEAN,
     quantity_change_mentioned : BOOLEAN,
     eta_changed : BOOLEAN,
     commitment_confidence : {"weak", "medium", "strong"},
     urgency_level : {"high", "medium", "low"},
     ambiguity_detected : BOOLEAN,
     supplier_sentiment : {"negative", "neutral", "positive"}]

DelayDaysValues == {0, 1, 3, 7}

QuantityChangeValues == {0 - 20, 0 - 10, 0 - 1}

\* po: None ("none"), or a purchase order of that priority
PoArguments == {"none", "critical", "high", "normal"}

\* context: None, or a HistoricalContext; supplier_reliability_score in
\* hundredths (the schema puts no range on it)
NoContext ==
    [none |-> TRUE, supplier_reliability_score |-> 0, total_past_issues |-> 0]

Contexts ==
    {NoContext} \cup
    [none : {FALSE}, supplier_reliability_score : {0 - 50, 0, 100},
     total_past_issues : {0, 6}]

\* the DeliveryChange, by the fields the scoring reads
Changes ==
    [detected : BOOLEAN,
     delay_days : OptionalInt({0 - 1, 0, 1, 3, 7, 10}),
     quantity_change : OptionalInt({0 - 20, 0 - 10, 0 - 1, 0, 5}),
     confidence : {0, 50, 60, 80, 90, 100}]

Max2(a, b) == IF a >= b THEN a ELSE b

Min2(a, b) == IF a <= b THEN a ELSE b

\* the sum compute_risk_score builds before it normalizes
base_score(s, days, quantity, priority, ctx) ==
      (IF s.delay_mentioned THEN 30 ELSE 0)
    + (IF s.quantity_change_mentioned THEN 20 ELSE 0)
    + (IF s.eta_changed THEN 15 ELSE 0)
    + (CASE s.commitment_confidence = "weak" -> 20
         [] s.commitment_confidence = "medium" -> 10
         [] OTHER -> 0)
    + (CASE s.urgency_level = "high" -> 20
         [] s.urgency_level = "medium" -> 10
         [] OTHER -> 0)
    + (IF s.ambiguity_detected THEN 15 ELSE 0)
    + (CASE s.supplier_sentiment = "negative" -> 15
         [] s.supplier_sentiment = "positive" -> 0 - 10
         [] OTHER -> 0)
    + (IF days.none THEN 0
       ELSE IF days.value >= 7 THEN 30
       ELSE IF days.value >= 3 THEN 20
       ELSE IF days.value > 0 THEN 10
       ELSE 0)
    + (IF quantity.none \/ quantity.value >= 0 THEN 0
       ELSE IF 0 - quantity.value >= 20 THEN 25
       ELSE IF 0 - quantity.value >= 10 THEN 15
       ELSE 10)
    + (CASE priority = "critical" -> 20
         [] priority = "high" -> 10
         [] OTHER -> 0)
    + (IF ctx.none THEN 0
       ELSE ((100 - ctx.supplier_reliability_score) * 20) \div 100
            + (IF ctx.total_past_issues > 5 THEN 10 ELSE 0))

\* without min(max(base_score, 0.0), 1.0)
compute_risk_score_NoClamp(s, days, quantity, priority, ctx) ==
    base_score(s, days, quantity, priority, ctx)

compute_risk_score(s, days, quantity, priority, ctx) ==
    Min2(Max2(base_score(s, days, quantity, priority, ctx), 0), 100)

\* calculate_risk_score of main.py; "if change.delay_days and ..." is false
\* for None and for 0
calculate_risk_score(c, is_unmapped) ==
    Min2(Max2(
          (IF c.delay_days.none \/ c.delay_days.value <= 0 THEN 0
           ELSE IF c.delay_days.value >= 7 THEN 40
           ELSE IF c.delay_days.value >= 3 THEN 30
           ELSE 20)
        + (IF c.quantity_change.none \/ c.quantity_change.value >= 0 THEN 0
           ELSE IF 0 - c.quantity_change.value >= 20 THEN 30
           ELSE IF 0 - c.quantity_change.value >= 10 THEN 20
           ELSE 10)
        + (IF c.confidence >= 80 THEN 20
           ELSE IF c.confidence >= 60 THEN 10
           ELSE 0)
        + (IF is_unmapped THEN 10 ELSE 0), 0), 100)

get_alert_severity(c, is_unmapped) ==
    IF is_unmapped THEN "INFO"
    ELSE IF calculate_risk_score(c, is_unmapped) >= 70 THEN "CRITICAL"
    ELSE IF calculate_risk_score(c, is_unmapped) >= 40 THEN "MEDIUM"
    ELSE "INFO"

NoChange ==
    [detected |-> FALSE, delay_days |-> NoneInt, quantity_change |-> NoneInt,
     confidence |-> 0]

NoSignal ==
    [delay_mentioned |-> FALSE, quantity_change_mentioned |-> FALSE,
     eta_changed |-> FALSE, commitment_confidence |-> "strong",
     urgency_level |-> "low", ambiguity_detected |-> FALSE,
     supplier_sentiment |-> "neutral"]

InitRisk ==
    /\ risk_fn \in {"compute_risk_score", "calculate_risk_score",
                    "get_alert_severity"}
    /\ risk_pc = "called"
    /\ IF risk_fn = "compute_risk_score"
       THEN /\ signal \in Signals
            /\ delay_days \in OptionalInt(DelayDaysValues)
            /\ quantity_change \in OptionalInt(QuantityChangeValues)
            /\ risk_po \in PoArguments
            /\ context \in Contexts
            /\ change = NoChange
            /\ unmapped = FALSE
       ELSE /\ signal = NoSignal
            /\ delay_days = NoneInt
            /\ quantity_change = NoneInt
            /\ risk_po = "none"
            /\ context = NoContext
            /\ change \in Changes
            /\ unmapped \in BOOLEAN
    /\ risk_score = 0
    /\ severity = ""
    /\ pc = "idle"
    /\ bom = BomMissing
    /\ ArbiterIdle /\ RepeatIdle /\ BatchIdle /\ LLMIdle /\ AgentIdle
    /\ HoardingIdle
    /\ InboxIdle
    /\ RecommendIdle
    /\ PipelineIdle
    /\ OptimizerIdle

ComputeRiskScore ==
    /\ risk_fn = "compute_risk_score"
    /\ risk_pc = "called"
    /\ risk_score' = compute_risk_score(signal, delay_days, quantity_change,
                                        risk_po, context)
    /\ risk_pc' = "returned"
    /\ UNCHANGED <<risk_fn, signal, delay_days, quantity_change, risk_po,
                   context, change, unmapped, severity>>
    /\ UNCHANGED <<arbiter_vars, repeat_vars, batch_vars, llm_vars, agent_vars,
                   hoarding_vars,
                   inbox_vars,
                   recommend_vars,
                   pipeline_vars,
                   optimizer_vars>>

CalculateRiskScore ==
    /\ risk_fn = "calculate_risk_score"
    /\ risk_pc = "called"
    /\ risk_score' = calculate_risk_score(change, unmapped)
    /\ risk_pc' = "returned"
    /\ UNCHANGED <<risk_fn, signal, delay_days, quantity_change, risk_po,
                   context, change, unmapped, severity>>
    /\ UNCHANGED <<arbiter_vars, repeat_vars, batch_vars, llm_vars, agent_vars,
                   hoarding_vars,
                   inbox_vars,
                   recommend_vars,
                   pipeline_vars,
                   optimizer_vars>>

GetAlertSeverity ==
    /\ risk_fn = "get_alert_severity"
    /\ risk_pc = "called"
    /\ severity' = get_alert_severity(change, unmapped)
    /\ risk_pc' = "returned"
    /\ UNCHANGED <<risk_fn, signal, delay_days, quantity_change, risk_po,
                   context, change, unmapped, risk_score>>
    /\ UNCHANGED <<arbiter_vars, repeat_vars, batch_vars, llm_vars, agent_vars,
                   hoarding_vars,
                   inbox_vars,
                   recommend_vars,
                   pipeline_vars,
                   optimizer_vars>>

NextRisk ==
    \/ ComputeRiskScore
    \/ CalculateRiskScore
    \/ GetAlertSeverity

SpecRisk == InitRisk /\ [][NextRisk]_vars

(***************************************************************************)
(* C21 (score range): every risk score compute_risk_score and              *)
(* calculate_risk_score return lies in [0, 1], for every combination of    *)
(* signals, delay days, quantity change, confidence, PO priority and       *)
(* historical context.                                                     *)
(***************************************************************************)
C21_ScoreInUnitInterval ==
    (risk_pc = "returned"
       /\ risk_fn \in {"compute_risk_score", "calculate_risk_score"})
    => (0 <= risk_score /\ risk_score <= 100)

\* the sum is above 1 before it is cut to 1
C21_Witness ==
    /\ risk_fn = "compute_risk_score"
    /\ risk_pc = "returned"
    /\ base_score(signal, delay_days, quantity_change, risk_po, context) > 100
    /\ risk_score = 100

(***************************************************************************)
(* C24 (critical delays): for a mapped supplier, a detected delivery       *)
(* change with delay_days >= 7 and confidence >= 0.8 gets a risk score     *)
(* >= 0.7 and the alert severity CRITICAL.                                 *)
(***************************************************************************)
C24_LongDelayIsCritical ==
    (/\ risk_pc = "returned"
     /\ ~unmapped
     /\ change.detected
     /\ ~change.delay_days.none
     /\ change.delay_days.value >= 7
     /\ change.confidence >= 80)
    => /\ (risk_fn = "calculate_risk_score") => risk_score >= 70
       /\ (risk_fn = "get_alert_severity") => severity = "CRITICAL"

(***************************************************************************)
(* HoardingDetector.analyze_material.  The material summary is what        *)
(* DatasetLoader.get_material_summary returns; avg_daily_demand and        *)
(* dispatch days take whole values here, so that their product, the        *)
(* optimal stock, is exact as it is in floating point, and the ratio is    *)
(* compared by cross-multiplication.                                       *)
(***************************************************************************)
MaxHoardingStock == 6

\* avg_daily_demand: the quantities of sales_orders.csv are signed
AvgDailyDemands == {0 - 1, 0, 1, 2}

\* dispatch_constraints: None ("none"), a row without a usable field
\* ("unusable"), or a row with that many dispatch days
DispatchConstraints == {"none", "unusable"} \cup {"0", "1", "2", "3"}

\* int(dispatch_constraints[field])
DispatchDaysOf(constraints) ==
    CASE constraints = "0" -> 0
      [] constraints = "1" -> 1
      [] constraints = "2" -> 2
      [] constraints = "3" -> 3

\* _get_dispatch_days: 30 without constraints or without a valid field
_get_dispatch_days(constraints) ==
    IF constraints \in {"none", "unusable"} THEN 30
    ELSE DispatchDaysOf(constraints)

\* with HIGH starting at three times the optimal stock
_calculate_risk_level_HighFromThree(current_stock, optimal_stock, avg_daily_demand) ==
    IF avg_daily_demand = 0 THEN "LOW"
    ELSE IF optimal_stock > 0 /\ current_stock >= 3 * optimal_stock THEN "HIGH"
    ELSE IF optimal_stock > 0 /\ 2 * current_stock >= 3 * optimal_stock
    THEN "MEDIUM"
    ELSE "LOW"

\* _calculate_risk_level: stock_ratio = current_stock / optimal_stock when
\* optimal_stock > 0, else 0; HIGH from 2.0, MEDIUM from 1.5
_calculate_risk_level(current_stock, optimal_stock, avg_daily_demand) ==
    IF avg_daily_demand = 0 THEN "LOW"
    ELSE IF optimal_stock > 0 /\ current_stock >= 2 * optimal_stock THEN "HIGH"
    ELSE IF optimal_stock > 0 /\ 2 * current_stock >= 3 * optimal_stock
    THEN "MEDIUM"
    ELSE "LOW"

\* analyze_material after get_material_summary returned
analyze_material(s) ==
    LET dispatch_days == _get_dispatch_days(s.dispatch_constraints)
        optimal_stock == s.avg_daily_demand * dispatch_days
    IN  [risk_level |-> _calculate_risk_level(s.current_stock, optimal_stock,
                                              s.avg_daily_demand),
         excess_units |-> Max2(0, s.current_stock - optimal_stock),
         optimal_stock |-> optimal_stock]

\* the conservative result of the except clause
ConservativeHoardingResult ==
    [risk_level |-> "LOW", excess_units |-> 0, optimal_stock |-> 0]

InitHoarding ==
    /\ hoarding_pc = "called"
    /\ summary \in [raises : BOOLEAN,
                    current_stock : 0..MaxHoardingStock,
                    avg_daily_demand : AvgDailyDemands,
                    dispatch_constraints : DispatchConstraints]
    /\ hoarding_result = ConservativeHoardingResult
    /\ pc = "idle"
    /\ bom = BomMissing
    /\ ArbiterIdle /\ RepeatIdle /\ BatchIdle /\ LLMIdle /\ AgentIdle
    /\ RiskIdle
    /\ InboxIdle
    /\ RecommendIdle
    /\ PipelineIdle
    /\ OptimizerIdle

\* analyze_material: the whole body is in a try block
AnalyzeMaterial ==
    /\ hoarding_pc = "called"
    /\ hoarding_result' = IF summary.raises THEN ConservativeHoardingResult
                          ELSE analyze_material(summary)
    /\ hoarding_pc' = "returned"
    /\ UNCHANGED summary
    /\ UNCHANGED <<arbiter_vars, repeat_vars, batch_vars, llm_vars, agent_vars,
                   risk_vars,
                   inbox_vars,
                   recommend_vars,
                   pipeline_vars,
                   optimizer_vars>>

NextHoarding == AnalyzeMaterial

SpecHoarding == InitHoarding /\ [][NextHoarding]_vars

(***************************************************************************)
(* C22 (hoarding thresholds): the hoarding risk is HIGH when stock_ratio   *)
(* (current stock / optimal stock) is >= 2.0, MEDIUM when it is >= 1.5 and *)
(* < 2.0, and LOW otherwise; a material with average daily demand zero is  *)
(* never classified above LOW, whatever its stock.                         *)
(***************************************************************************)
C22_HoardingThresholds ==
    (hoarding_pc = "returned" /\ ~summary.raises) =>
       LET current == summary.current_stock
           optimal == hoarding_result.optimal_stock
           defined == optimal > 0 /\ summary.avg_daily_demand # 0
       IN  /\ (defined /\ current >= 2 * optimal)
                => hoarding_result.risk_level = "HIGH"
           /\ (defined /\ 2 * current >= 3 * optimal /\ current < 2 * optimal)
                => hoarding_result.risk_level = "MEDIUM"
           /\ (~defined \/ 2 * current < 3 * optimal)
                => hoarding_result.risk_level = "LOW"
           /\ (summary.avg_daily_demand = 0)
                => hoarding_result.risk_level = "LOW"

\* stock at exactly twice the optimal stock is HIGH
C22_Witness ==
    /\ hoarding_pc = "returned"
    /\ ~summary.raises
    /\ summary.avg_daily_demand = 1
    /\ hoarding_result.optimal_stock = 2
    /\ summary.current_stock = 4
    /\ hoarding_result.risk_level = "HIGH"

(***************************************************************************)
(* HugoAgent.process_emails and the functions it gates alerts with.  A     *)
(* text is the sequence of its characters; None, where a text is           *)
(* optional, is the empty sequence, which is as false as the empty text.   *)
(***************************************************************************)
MaxInbox == 2

NoText == <<>>

UpperCase ==
    <<"A", "B", "C", "D", "E", "F", "G", "H", "I", "J", "K", "L", "M",
      "N", "O", "P", "Q", "R", "S", "T", "U", "V", "W", "X", "Y", "Z">>

LowerCase ==
    <<"a", "b", "c", "d", "e", "f", "g", "h", "i", "j", "k", "l", "m",
      "n", "o", "p", "q", "r", "s", "t", "u", "v", "w", "x", "y", "z">>

\* \d
DigitChars == {Digits[i] : i \in 1..Len(Digits)}

\* str.upper() and str.lower(), character by character
upper_char(c) ==
    IF \E i \in 1..Len(LowerCase) : LowerCase[i] = c
    THEN UpperCase[CHOOSE i \in 1..Len(LowerCase) : LowerCase[i] = c]
    ELSE c

lower_char(c) ==
    IF \E i \in 1..Len(UpperCase) : UpperCase[i] = c
    THEN LowerCase[CHOOSE i \in 1..Len(UpperCase) : UpperCase[i] = c]
    ELSE c

upper_text(text) == [i \in 1..Len(text) |-> upper_char(text[i])]

lower_text(text) == [i \in 1..Len(text) |-> lower_char(text[i])]

\* keyword in text
contains_text(text, word) ==
    \E i \in 1..(Len(text) - Len(word) + 1) :
       SubSeq(text, i, i + Len(word) - 1) = word

\* PO-\d{4}-\d{5} with re.IGNORECASE matches at position i
po_pattern_at(text, i) ==
    /\ i + 12 <= Len(text)
    /\ upper_char(text[i]) = "P"
    /\ upper_char(text[i + 1]) = "O"
    /\ text[i + 2] = "-"
    /\ \A k \in 3..6 : text[i + k] \in DigitChars
    /\ text[i + 7] = "-"
    /\ \A k \in 8..12 : text[i + k] \in DigitChars

\* re.search(po_pattern, text, re.IGNORECASE): the leftmost match, or None
search_po_pattern(text) ==
    IF \E i \in 1..Len(text) : po_pattern_at(text, i)
    THEN LET first == CHOOSE i \in 1..Len(text) :
                         /\ po_pattern_at(text, i)
                         /\ \A j \in 1..(i - 1) : ~po_pattern_at(text, j)
         IN  SubSeq(text, first, first + 12)
    ELSE NoText

\* extract_valid_po_reference: the subject first, then the body
extract_valid_po_reference(subject, body) ==
    IF search_po_pattern(subject) # NoText
    THEN upper_text(search_po_pattern(subject))
    ELSE IF search_po_pattern(body) # NoText
    THEN upper_text(search_po_pattern(body))
    ELSE NoText

marketing_keywords ==
    {<<"h", "o", "l", "i", "d", "a", "y">>,
     <<"c", "h", "r", "i", "s", "t", "m", "a", "s">>,
     <<"n", "e", "w", " ", "y", "e", "a", "r">>,
     <<"t", "h", "a", "n", "k", "s", "g", "i", "v", "i", "n", "g">>,
     <<"n", "e", "w", "s", "l", "e", "t", "t", "e", "r">>,
     <<"p", "r", "o", "m", "o", "t", "i", "o", "n">>,
     <<"s", "a", "l", "e">>,
     <<"d", "i", "s", "c", "o", "u", "n", "t">>,
     <<"o", "f", "f", "e", "r">>,
     <<"m", "a", "r", "k", "e", "t", "i", "n", "g">>,
     <<"u", "n", "s", "u", "b", "s", "c", "r", "i", "b", "e">>,
     <<"c", "a", "m", "p", "a", "i", "g", "n">>,
     <<"g", "r", "e", "e", "t", "i", "n", "g", "s">>,
     <<"s", "e", "a", "s", "o", "n", "a", "l">>}

\* the sender patterns, each of which re.search finds as a substring
marketing_patterns ==
    {<<"@", "m", "a", "r", "k", "e", "t", "i", "n", "g", ".">>,
     <<"@", "n", "e", "w", "s", "l", "e", "t", "t", "e", "r", ".">>,
     <<"@", "p", "r", "o", "m", "o", ".">>,
     <<"@", "c", "a", "m", "p", "a", "i", "g", "n", ".">>,
     <<"n", "o", "r", "e", "p", "l", "y", "@">>,
     <<"d", "o", "n", "o", "t", "r", "e", "p", "l", "y", "@">>}

is_holiday_or_marketing_email(subject, body, sender) ==
    \/ \E keyword \in marketing_keywords :
          \/ contains_text(lower_text(subject), keyword)
          \/ contains_text(lower_text(body), keyword)
    \/ \E pattern \in marketing_patterns :
          contains_text(lower_text(sender), pattern)

\* with the test of the PO reference left out
should_generate_alert_NoPoTest(c, po_reference, is_unmapped) ==
    IF ~c.detected THEN FALSE
    ELSE IF is_unmapped /\ c.detected THEN TRUE
    ELSE IF ~c.delay_days.none /\ c.delay_days.value > 0 THEN TRUE
    ELSE IF ~c.quantity_change.none /\ c.quantity_change.value < 0 THEN TRUE
    ELSE IF c.confidence >= 60 THEN TRUE
    ELSE IF c.detected THEN TRUE
    ELSE FALSE

\* should_generate_alert
should_generate_alert(c, po_reference, is_unmapped) ==
    IF po_reference = NoText THEN FALSE
    ELSE IF ~c.detected THEN FALSE
    ELSE IF is_unmapped /\ c.detected THEN TRUE
    ELSE IF ~c.delay_days.none /\ c.delay_days.value > 0 THEN TRUE
    ELSE IF ~c.quantity_change.none /\ c.quantity_change.value < 0 THEN TRUE
    ELSE IF c.confidence >= 60 THEN TRUE
    ELSE IF c.detected THEN TRUE
    ELSE FALSE

\* the emails fetch_emails returns: a reference in the subject, one in lower
\* case with a digit too many, a reference one digit short, that one with a
\* reference in the body, a sale, and a sender that does not take replies
InboxEmails ==
    {[subject |-> <<"D", "e", "l", "a", "y", " ", "P", "O", "-", "2", "0", "2", "4", "-", "1", "2", "3", "4", "5">>,
      body |-> <<>>,
      sender |-> <<"a", "@", "b", ".", "i", "o">>],
     [subject |-> <<"p", "o", "-", "2", "0", "2", "4", "-", "1", "2", "3", "4", "5", "6">>,
      body |-> <<>>,
      sender |-> <<"a", "@", "b", ".", "i", "o">>],
     [subject |-> <<"P", "O", "-", "2", "0", "2", "4", "-", "0", "8", "9", "2">>,
      body |-> <<>>,
      sender |-> <<"a", "@", "b", ".", "i", "o">>],
     [subject |-> <<"P", "O", "-", "2", "0", "2", "4", "-", "0", "8", "9", "2">>,
      body |-> <<"r", "e", "f", " ", "P", "O", "-", "2", "0", "2", "5", "-", "0", "0", "0", "0", "1">>,
      sender |-> <<"a", "@", "b", ".", "i", "o">>],
     [subject |-> <<"S", "a", "l", "e", " ", "P", "O", "-", "2", "0", "2", "4", "-", "1", "2", "3", "4", "5">>,
      body |-> <<>>,
      sender |-> <<"a", "@", "b", ".", "i", "o">>],
     [subject |-> <<"D", "e", "l", "a", "y", " ", "P", "O", "-", "2", "0", "2", "4", "-", "1", "2", "3", "4", "5">>,
      body |-> <<>>,
      sender |-> <<"n", "o", "r", "e", "p", "l", "y", "@", "b", ".", "i", "o">>]}

\* the po_reference should_generate_alert is called with
GatePoReferences ==
    {NoText,
     <<"P", "O", "-", "2", "0", "2", "4", "-", "1", "2", "3", "4", "5">>,
     <<"P", "O", "-", "2", "0", "2", "4", "-", "0", "8", "9", "2">>}

\* what detect_changes returns
DetectedChanges ==
    {c \in Changes : /\ c.delay_days \in {NoneInt, SomeInt(7)}
                     /\ c.quantity_change = NoneInt
                     /\ c.confidence \in {0, 80}}

\* what the services give for one email: whether the ERP matches a PO,
\* whether a step of _process_single_email raises, the change detected
EmailOutcomes == [mapped : BOOLEAN, raises : BOOLEAN, detected_change : DetectedChanges]

AlertResult(message, delivery_change, alert_source) ==
    [none |-> FALSE, email |-> message, delivery_change |-> delivery_change,
     alert_source |-> alert_source]

\* the None an Optional[AlertResult] can be
NoAlertResult ==
    [none |-> TRUE, email |-> [subject |-> NoText, body |-> NoText, sender |-> NoText],
     delivery_change |-> NoChange, alert_source |-> "unknown"]

\* returning None from the except clause
_process_single_email_NoneOnError(message, po_reference, o) ==
    IF o.raises THEN NoAlertResult
    ELSE IF ~should_generate_alert(o.detected_change, po_reference, ~o.mapped)
    THEN AlertResult(message, o.detected_change, "unknown")
    ELSE AlertResult(message, o.detected_change,
                     IF o.mapped THEN "mapped_po" ELSE "unmapped_supplier")

\* _process_single_email: an AlertResult on every path
_process_single_email(message, po_reference, o) ==
    IF o.raises THEN AlertResult(message, NoChange, "unknown")
    ELSE IF ~should_generate_alert(o.detected_change, po_reference, ~o.mapped)
    THEN AlertResult(message, o.detected_change, "unknown")
    ELSE AlertResult(message, o.detected_change,
                     IF o.mapped THEN "mapped_po" ELSE "unmapped_supplier")

NoMetrics ==
    [emails_processed |-> 0, relevant_emails |-> 0, signals_detected |-> 0,
     alerts_generated |-> 0, false_positives_prevented |-> 0,
     high_risk_alerts |-> 0]

\* metrics[key] += 1
Count(m, key) == [m EXCEPT ![key] = @ + 1]

\* one iteration of the loop of process_emails: the metrics and the alerts
\* after it
process_email(m, found, message, o) ==
    LET counted == Count(m, "emails_processed")
        po_reference == extract_valid_po_reference(message.subject, message.body)
        alert == _process_single_email(message, po_reference, o)
        is_unmapped == alert.alert_source = "unmapped_supplier"
        relevant == Count(counted, "relevant_emails")
        signalled == IF alert.delivery_change.detected
                     THEN Count(relevant, "signals_detected") ELSE relevant
        generated == Count(signalled, "alerts_generated")
    IN  IF is_holiday_or_marketing_email(message.subject, message.body, message.sender)
        THEN [metrics |-> Count(counted, "false_positives_prevented"), alerts |-> found]
        ELSE IF po_reference = NoText
        THEN [metrics |-> Count(counted, "false_positives_prevented"), alerts |-> found]
        ELSE IF alert.none
        THEN [metrics |-> relevant, alerts |-> found]
        ELSE IF should_generate_alert(alert.delivery_change, po_reference, is_unmapped)
        THEN [metrics |-> IF get_alert_severity(alert.delivery_change, is_unmapped)
                               = "CRITICAL"
                          THEN Count(generated, "high_risk_alerts")
                          ELSE generated,
              alerts |-> Append(found, alert)]
        ELSE [metrics |-> Count(signalled, "false_positives_prevented"),
              alerts |-> found]

GateIdle ==
    /\ gate_change = NoChange
    /\ gate_po_reference = NoText
    /\ gate_unmapped = FALSE
    /\ gate_result = FALSE

InitInbox ==
    /\ inbox_fn \in {"process_emails", "should_generate_alert"}
    /\ inbox_pc = "called"
    /\ IF inbox_fn = "process_emails"
       THEN /\ inbox \in UNION {[1..n -> InboxEmails] : n \in 0..MaxInbox}
            /\ GateIdle
       ELSE /\ inbox = <<>>
            /\ gate_change \in Changes
            /\ gate_po_reference \in GatePoReferences
            /\ gate_unmapped \in BOOLEAN
            /\ gate_result = FALSE
    /\ inbox_index = 1
    /\ metrics = NoMetrics
    /\ alerts = <<>>
    /\ pc = "idle"
    /\ bom = BomMissing
    /\ /\ ArbiterIdle /\ RepeatIdle /\ BatchIdle /\ LLMIdle /\ AgentIdle
    /\ RiskIdle
    /\ HoardingIdle
    /\ RecommendIdle
    /\ PipelineIdle
    /\ OptimizerIdle

\* process_emails, one email of the loop
ProcessEmail ==
    /\ inbox_fn = "process_emails"
    /\ inbox_pc = "called"
    /\ inbox_index <= Len(inbox)
    /\ \E o \in EmailOutcomes :
          \E after \in {process_email(metrics, alerts, inbox[inbox_index], o)} :
             /\ metrics' = after.metrics
             /\ alerts' = after.alerts
    /\ inbox_index' = inbox_index + 1
    /\ UNCHANGED <<inbox_fn, inbox_pc, inbox, gate_change, gate_po_reference,
                   gate_unmapped, gate_result>>
    /\ UNCHANGED <<arbiter_vars, repeat_vars, batch_vars, llm_vars, agent_vars,
                   risk_vars,
                   hoarding_vars,
                   recommend_vars,
                   pipeline_vars,
                   optimizer_vars>>

\* process_emails returns the alerts: at once when no email was fetched,
\* after the loop otherwise
ProcessEmailsDone ==
    /\ inbox_fn = "process_emails"
    /\ inbox_pc = "called"
    /\ inbox_index > Len(inbox)
    /\ inbox_pc' = "returned"
    /\ UNCHANGED <<inbox_fn, inbox, inbox_index, metrics, alerts, gate_change,
                   gate_po_reference, gate_unmapped, gate_result>>
    /\ UNCHANGED <<arbiter_vars, repeat_vars, batch_vars, llm_vars, agent_vars,
                   risk_vars,
                   hoarding_vars,
                   recommend_vars,
                   pipeline_vars,
                   optimizer_vars>>

\* should_generate_alert called on its own
ShouldGenerateAlert ==
    /\ inbox_fn = "should_generate_alert"
    /\ inbox_pc = "called"
    /\ gate_result' = should_generate_alert(gate_change, gate_po_reference,
                                            gate_unmapped)
    /\ inbox_pc' = "returned"
    /\ UNCHANGED <<inbox_fn, inbox, inbox_index, metrics, alerts, gate_change,
                   gate_po_reference, gate_unmapped>>
    /\ UNCHANGED <<arbiter_vars, repeat_vars, batch_vars, llm_vars, agent_vars,
                   risk_vars,
                   hoarding_vars,
                   recommend_vars,
                   pipeline_vars,
                   optimizer_vars>>

NextInbox ==
    \/ ProcessEmail
    \/ ProcessEmailsDone
    \/ ShouldGenerateAlert

SpecInbox == InitInbox /\ [][NextInbox]_vars

\* PO-dddd-ddddd
IsPoReference(text) ==
    /\ Len(text) = 13
    /\ text[1] = "P" /\ text[2] = "O" /\ text[3] = "-" /\ text[8] = "-"
    /\ \A i \in (4..7) \cup (9..13) : text[i] \in DigitChars

\* text occurs in the subject or the body, whatever the case of its letters
OccursIn(text, message) ==
    \/ contains_text(upper_text(message.subject), text)
    \/ contains_text(upper_text(message.body), text)

(***************************************************************************)
(* C23 (alert gating): process_emails returns an alert for an email only   *)
(* if a reference of the form PO-dddd-ddddd was extracted from that email  *)
(* and the delivery change of the alert is detected; should_generate_alert *)
(* is false whenever the PO reference is absent or change.detected is      *)
(* false.                                                                  *)
(***************************************************************************)
C23_AlertOnlyWithPoReference ==
    /\ \A i \in 1..Len(alerts) :
          LET po_reference == extract_valid_po_reference(alerts[i].email.subject,
                                                         alerts[i].email.body)
          IN  /\ IsPoReference(po_reference)
              /\ OccursIn(po_reference, alerts[i].email)
              /\ alerts[i].delivery_change.detected
              /\ \E j \in 1..(inbox_index - 1) : inbox[j] = alerts[i].email
    /\ (inbox_fn = "should_generate_alert" /\ inbox_pc = "returned"
        /\ (gate_po_reference = NoText \/ ~gate_change.detected))
          => ~gate_result

\* an email whose reference is written in lower case, with a digit too many,
\* raised an alert, and another email of the batch raised none
C23_Witness ==
    /\ inbox_pc = "returned"
    /\ Len(inbox) = 2
    /\ Len(alerts) = 1
    /\ alerts[1].email.subject = <<"p", "o", "-", "2", "0", "2", "4", "-", "1", "2", "3", "4", "5", "6">>
    /\ extract_valid_po_reference(alerts[1].email.subject, alerts[1].email.body)
          = 
             <<"P", "O", "-", "2", "0", "2", "4", "-", "1", "2", "3", "4", "5">>

(***************************************************************************)
(* C30 (metrics partition): after process_emails has run over a batch,     *)
(* every processed email is counted in exactly one of alerts_generated and *)
(* false_positives_prevented: emails_processed equals their sum.           *)
(***************************************************************************)
C30_ProcessedIsAlertsPlusPrevented ==
    (inbox_fn = "process_emails" /\ inbox_pc = "returned") =>
       /\ metrics.emails_processed = Len(inbox)
       /\ metrics.alerts_generated = Len(alerts)
       /\ metrics.emails_processed
             = metrics.alerts_generated + metrics.false_positives_prevented

\* a batch of two: one email alerted, one prevented
C30_Witness ==
    /\ inbox_fn = "process_emails"
    /\ inbox_pc = "returned"
    /\ metrics.emails_processed = 2
    /\ metrics.alerts_generated = 1
    /\ metrics.false_positives_prevented = 1
    /\ metrics.relevant_emails = 2

(***************************************************************************)
(* InventoryBalancer.determine_recommendation.  The demand figures take    *)
(* whole values; volatility / avg_demand is compared with a number of      *)
(* tenths by cross-multiplication, with the sign of avg_demand.            *)
(***************************************************************************)
MaxAvgDemand == 10

MaxVolatility == 10

\* statistics.mean of the daily quantities, which are signed
AvgDemands == (0 - 2)..MaxAvgDemand

\* statistics.stdev, never negative
Volatilities == 0..MaxVolatility

\* volatility / avg_demand > tenths / 10, and < and =
RatioAbove(v, a, tenths) == IF a > 0 THEN 10 * v > tenths * a ELSE 10 * v < tenths * a

RatioBelow(v, a, tenths) == IF a > 0 THEN 10 * v < tenths * a ELSE 10 * v > tenths * a

RatioIs(v, a, tenths) == 10 * v = tenths * a

determine_recommendation(a, v) ==
    IF a = 0 THEN [recommendation |-> "KEEP_STOCK", confidence |-> "LOW"]
    ELSE IF RatioAbove(v, a, 6)
    THEN [recommendation |-> "INCREASE_SAFETY_STOCK",
          confidence |-> IF RatioAbove(v, a, 8) THEN "HIGH" ELSE "MEDIUM"]
    ELSE IF RatioBelow(v, a, 2)
    THEN [recommendation |-> "DECREASE_SAFETY_STOCK",
          confidence |-> IF RatioBelow(v, a, 1) THEN "HIGH" ELSE "MEDIUM"]
    ELSE [recommendation |-> "KEEP_STOCK",
          confidence |-> IF ~RatioBelow(v, a, 3) /\ ~RatioAbove(v, a, 5)
                         THEN "HIGH" ELSE "MEDIUM"]

InitRecommend ==
    /\ recommend_pc = "called"
    /\ avg_demand \in AvgDemands
    /\ volatility \in Volatilities
    /\ recommended = [recommendation |-> "", confidence |-> ""]
    /\ pc = "idle"
    /\ bom = BomMissing
    /\ /\ ArbiterIdle /\ RepeatIdle /\ BatchIdle /\ LLMIdle /\ AgentIdle
    /\ RiskIdle
    /\ HoardingIdle
    /\ InboxIdle
    /\ PipelineIdle
    /\ OptimizerIdle

DetermineRecommendation ==
    /\ recommend_pc = "called"
    /\ recommended' = determine_recommendation(avg_demand, volatility)
    /\ recommend_pc' = "returned"
    /\ UNCHANGED <<avg_demand, volatility>>
    /\ UNCHANGED <<arbiter_vars, repeat_vars, batch_vars, llm_vars, agent_vars,
                   risk_vars,
                   hoarding_vars,
                   inbox_vars,
                   pipeline_vars,
                   optimizer_vars>>

NextRecommend == DetermineRecommendation

SpecRecommend == InitRecommend /\ [][NextRecommend]_vars

(***************************************************************************)
(* C26 (recommendation rules): for avg_demand > 0, determine_recommendation*)
(* returns INCREASE_SAFETY_STOCK with HIGH confidence when volatility /    *)
(* avg_demand is at least 0.8, DECREASE_SAFETY_STOCK with HIGH confidence  *)
(* when it is at most 0.1, and KEEP_STOCK with HIGH confidence when it is  *)
(* between 0.3 and 0.5.                                                    *)
(***************************************************************************)
C26_RecommendationRules ==
    (recommend_pc = "returned" /\ avg_demand > 0) =>
       /\ (RatioAbove(volatility, avg_demand, 8) \/ RatioIs(volatility, avg_demand, 8))
            => recommended = [recommendation |-> "INCREASE_SAFETY_STOCK",
                              confidence |-> "HIGH"]
       /\ (RatioBelow(volatility, avg_demand, 1) \/ RatioIs(volatility, avg_demand, 1))
            => recommended = [recommendation |-> "DECREASE_SAFETY_STOCK",
                              confidence |-> "HIGH"]
       /\ (~RatioBelow(volatility, avg_demand, 3) /\ ~RatioAbove(volatility, avg_demand, 5))
            => recommended = [recommendation |-> "KEEP_STOCK", confidence |-> "HIGH"]

(***************************************************************************)
(* run_pipeline.  What the services answer (the detector, the ERP          *)
(* comparer, the RAG memory, the reasoner) is chosen step by step; each    *)
(* step yields the result dict after it and whether an exception leaves    *)
(* run_pipeline.                                                           *)
(***************************************************************************)
\* the longest list of RAG context documents (top_k is 5 in the code)
MaxContext == 2

EmailTexts == {"", "Order MO-1042 delayed by 5 days."}

\* data_path: None, a directory that exists, one that does not
DataPaths == {"None", "data", "missing"}

\* the result dict run_pipeline starts with; the keys it never tests are
\* left out
NewResult ==
    [status |-> "success", order_id |-> "", parsing |-> "None",
     erp_comparison |-> "None", rag_context |-> 0, risk_assessment |-> "None",
     warnings |-> <<>>, timestamp |-> "now"]

Warn(result, warning) == [result EXCEPT !.warnings = Append(@, warning)]

Step(result) == [result |-> result, raised |-> FALSE]

Raise(result) == [result |-> result, raised |-> TRUE]

\* what _parse_email does: it raises, or finds no order id, or finds one
ParseOutcomes == {"raises", "no_order_id", "order_id"}

\* step 1 without its except clause
parse_step_NoExcept(result, o) ==
    IF o = "raises" THEN Raise(result)
    ELSE IF o = "no_order_id"
    THEN Step([Warn(result, "Could not extract order_id from email")
                  EXCEPT !.parsing = "parsed", !.status = "partial"])
    ELSE Step([result EXCEPT !.parsing = "parsed", !.order_id = "MO-1042"])

\* step 1: parse the supplier email
parse_step(result, o) ==
    IF o = "raises"
    THEN Step([Warn(result, "Email parsing failed")
                  EXCEPT !.parsing = "error", !.status = "partial"])
    ELSE IF o = "no_order_id"
    THEN Step([Warn(result, "Could not extract order_id from email")
                  EXCEPT !.parsing = "parsed", !.status = "partial"])
    ELSE Step([result EXCEPT !.parsing = "parsed", !.order_id = "MO-1042"])

\* ERPComparer(erp_csv_path) and erp_comparer.compare
ErpOutcomes == {"load_raises", "compare_raises", "unmatched", "matched"}

\* step 2: load the ERP file and compare the dates
erp_step(result, exists, o) ==
    LET loaded == IF o = "load_raises" THEN Warn(result, "ERP load failed")
                  ELSE IF exists THEN result
                  ELSE [Warn(result, "ERP file not found") EXCEPT !.status = "partial"]
        erp_comparer == exists /\ o # "load_raises"
        compared ==
            IF loaded.order_id # "" /\ erp_comparer
            THEN IF o = "compare_raises"
                 THEN [Warn(loaded, "ERP comparison failed")
                          EXCEPT !.erp_comparison = "unmatched"]
                 ELSE IF o = "unmatched"
                 THEN [Warn(loaded, "No ERP record found for order")
                          EXCEPT !.erp_comparison = "unmatched"]
                 ELSE [loaded EXCEPT !.erp_comparison = "matched"]
            ELSE [loaded EXCEPT !.erp_comparison = "unmatched"]
    IN  Step(compared)

\* RAGMemory: it raises, or retrieve_context gives that many documents
RagOutcomes == {"raises"} \cup {"0"} \cup {IntText(n) : n \in 1..MaxContext}

\* step 3: retrieve the vector context; without a data path, an exception
\* of the existing store is passed over
rag_step(result, path, o) ==
    LET found == IF o = "raises" THEN 0 ELSE int(o)
    IN  IF path = "data" /\ o = "raises"
        THEN Step(Warn(result, "RAG retrieval failed"))
        ELSE IF found = 0
        THEN Step(Warn(result, "No relevant context found in vector store"))
        ELSE Step([result EXCEPT !.rag_context = found])

\* assess_risk_json
RiskOutcomes == {"raises", "assessed"}

\* step 4: assess the risk, then settle the status
risk_step(result, o) ==
    LET assessed == IF o = "raises"
                    THEN [Warn(result, "Risk assessment failed")
                             EXCEPT !.risk_assessment = "fallback"]
                    ELSE [result EXCEPT !.risk_assessment = "assessed"]
    IN  Step([assessed EXCEPT !.status =
                 IF Len(assessed.warnings) > 2 THEN "partial"
                 ELSE IF Len(assessed.warnings) > 0
                 THEN (IF @ # "error" THEN "partial" ELSE "error")
                 ELSE @])

InitPipeline ==
    /\ pipeline_pc = "parse"
    /\ email_text \in EmailTexts
    /\ erp_csv_exists \in BOOLEAN
    /\ data_path \in DataPaths
    /\ pipeline_result = NewResult
    /\ pc = "idle"
    /\ bom = BomMissing
    /\ /\ ArbiterIdle /\ RepeatIdle /\ BatchIdle /\ LLMIdle /\ AgentIdle
    /\ RiskIdle
    /\ HoardingIdle
    /\ InboxIdle
    /\ RecommendIdle
    /\ OptimizerIdle

PipelineStep(at, next, after) ==
    /\ pipeline_pc = at
    /\ pipeline_result' = after.result
    /\ pipeline_pc' = IF after.raised THEN "raised" ELSE next
    /\ UNCHANGED <<email_text, erp_csv_exists, data_path>>
    /\ UNCHANGED <<arbiter_vars, repeat_vars, batch_vars, llm_vars, agent_vars,
                   risk_vars,
                   hoarding_vars,
                   inbox_vars,
                   recommend_vars,
                   optimizer_vars>>

\* an empty email holds no order id
ParseEmail ==
    \E o \in ParseOutcomes :
       /\ email_text = "" => o # "order_id"
       /\ PipelineStep("parse", "erp", parse_step(pipeline_result, o))

LoadErp ==
    \E o \in ErpOutcomes :
       PipelineStep("erp", "rag", erp_step(pipeline_result, erp_csv_exists, o))

RetrieveContext ==
    \E o \in RagOutcomes :
       PipelineStep("rag", "risk", rag_step(pipeline_result, data_path, o))

AssessRisk ==
    \E o \in RiskOutcomes :
       PipelineStep("risk", "returned", risk_step(pipeline_result, o))

NextPipeline ==
    \/ ParseEmail
    \/ LoadErp
    \/ RetrieveContext
    \/ AssessRisk

SpecPipeline == InitPipeline /\ [][NextPipeline]_vars

(***************************************************************************)
(* C25 (pipeline never raises): run_pipeline never raises, for any email   *)
(* text, the empty one included, and any ERP path, a file that does not    *)
(* exist included; it returns a dict with status, timestamp and warnings,  *)
(* and when the ERP file is missing the warnings are not empty.            *)
(***************************************************************************)
C25_PipelineNeverRaises ==
    /\ pipeline_pc # "raised"
    /\ pipeline_pc = "returned" =>
          /\ {"status", "timestamp", "warnings"} \subseteq DOMAIN pipeline_result
          /\ pipeline_result.status \in {"success", "partial", "error"}
          /\ ~erp_csv_exists => Len(pipeline_result.warnings) > 0

\* the empty email with a missing ERP file, every service failing
C25_Witness ==
    /\ pipeline_pc = "returned"
    /\ email_text = ""
    /\ ~erp_csv_exists
    /\ pipeline_result.parsing = "error"
    /\ pipeline_result.risk_assessment = "fallback"
    /\ \E i \in 1..Len(pipeline_result.warnings) :
          pipeline_result.warnings[i] = "ERP file not found"

(***************************************************************************)
(* optimize_inventory_settings and _safe_default_recommendation.  The      *)
(* quantities of a recommendation are kept in tenths of a unit.            *)
(***************************************************************************)
\* the fields of the dataclass PartData
PartDataFields ==
    {"sku", "part_name", "annual_demand", "lead_time_days", "lead_time_variability",
     "demand_variability", "current_inventory", "current_reorder_point",
     "current_safety_stock", "current_lot_size", "carrying_cost_per_unit_year",
     "ordering_cost_per_order", "stockout_cost_per_unit", "service_level_target",
     "max_warehouse_space_allocated", "supplier_reliability_score",
     "recent_stockouts", "forecast_accuracy"}

\* the attributes of part_data the fallback prompt reads
FallbackPromptReads ==
    {"sku", "annual_demand", "supplier_lead_time_days", "current_reorder_point",
     "current_safety_stock", "current_lot_size"}

\* the current settings of a part: None, zero or a quantity
PartDatas ==
    [current_reorder_point : OptionalInt({0, 80}),
     current_safety_stock : OptionalInt({0, 40}),
     current_lot_size : OptionalInt({0, 150})]

\* value or default
OrDefault(optional, default) ==
    IF optional.none \/ optional.value = 0 THEN default ELSE optional.value

\* the primary attempt: the Ollama call raises, the parse raises or gives
\* None, the validation fails, or all three succeed
PrimaryOutcomes == {"call_raises", "parse_raises", "parse_none", "invalid", "valid"}

\* the simplified retry: it raises (the call or json.loads), or its JSON
\* lacks one of the three settings, or has them
FallbackOutcomes == {"raises", "incomplete", "complete"}

Recommendation(source, is_fallback, error, reorder_point) ==
    [raised |-> FALSE, source |-> source, is_fallback |-> is_fallback,
     error |-> error, reorder_point |-> reorder_point]

RaisedError(error) ==
    [raised |-> TRUE, source |-> "none", is_fallback |-> FALSE, error |-> error,
     reorder_point |-> 0]

\* _safe_default_recommendation: the fallback prompt is formatted before the
\* try block; the hardcoded default raises the reorder point by a fifth, and
\* where the LLM answers, its figure is taken to be the current setting
_safe_default_recommendation(part, error, fallback) ==
    IF ~(FallbackPromptReads \subseteq PartDataFields)
    THEN RaisedError("AttributeError")
    ELSE IF fallback = "complete"
    THEN Recommendation("simplified", FALSE, "None",
                        10 * OrDefault(part.current_reorder_point, 100))
    ELSE Recommendation("hardcoded", TRUE, error,
                        12 * OrDefault(part.current_reorder_point, 100))

optimize_inventory_settings(part, primary, fallback) ==
    CASE primary = "call_raises" ->
            _safe_default_recommendation(part, "Ollama connection failed", fallback)
      [] primary = "parse_raises" ->
            _safe_default_recommendation(part, "JSONDecodeError", fallback)
      [] primary = "parse_none" ->
            _safe_default_recommendation(part, "JSON parse error", fallback)
      [] primary = "invalid" ->
            _safe_default_recommendation(part, "Validation error", fallback)
      [] primary = "valid" ->
            Recommendation("primary", FALSE, "None",
                           10 * OrDefault(part.current_reorder_point, 100))

InitOptimizer ==
    /\ optimizer_pc = "called"
    /\ part_data \in PartDatas
    /\ primary_outcome \in PrimaryOutcomes
    /\ fallback_outcome \in FallbackOutcomes
    /\ optimized = RaisedError("None")
    /\ pc = "idle"
    /\ bom = BomMissing
    /\ /\ ArbiterIdle /\ RepeatIdle /\ BatchIdle /\ LLMIdle /\ AgentIdle
    /\ RiskIdle
    /\ HoardingIdle
    /\ InboxIdle
    /\ RecommendIdle
    /\ PipelineIdle

OptimizeInventorySettings ==
    /\ optimizer_pc = "called"
    /\ optimized' = optimize_inventory_settings(part_data, primary_outcome,
                                                fallback_outcome)
    /\ optimizer_pc' = "done"
    /\ UNCHANGED <<part_data, primary_outcome, fallback_outcome>>
    /\ UNCHANGED <<arbiter_vars, repeat_vars, batch_vars, llm_vars, agent_vars,
                   risk_vars,
                   hoarding_vars,
                   inbox_vars,
                   recommend_vars,
                   pipeline_vars>>

NextOptimizer == OptimizeInventorySettings

SpecOptimizer == InitOptimizer /\ [][NextOptimizer]_vars

(***************************************************************************)
(* C28 (optimizer never raises): optimize_inventory_settings never raises; *)
(* when the LLM call, the JSON parsing or the validation fails it returns  *)
(* a recommendation from the fallback path, which is the hardcoded         *)
(* conservative default with is_fallback = true when the simplified retry  *)
(* fails as well.                                                          *)
(***************************************************************************)
C28_OptimizerNeverRaises ==
    optimizer_pc = "done" =>
       /\ ~optimized.raised
       /\ primary_outcome # "valid" => optimized.source \in {"simplified", "hardcoded"}
       /\ (primary_outcome # "valid" /\ fallback_outcome # "complete")
            => /\ optimized.source = "hardcoded"
               /\ optimized.is_fallback

====
